---- MODULE Spec2Model ----
(***************************************************************************)
(* ARG layout engine of sparg_viz: node deduplication (three renderer      *)
(* variants), rank assignment, layer positioning, and the React/d3 life    *)
(* cycle of the force-directed relaxation loop.                            *)
(*                                                                         *)
(* JavaScript optional fields are modelled as sequences: <<>> is           *)
(* `undefined`, <<v>> is the number v.                                     *)
(***************************************************************************)
EXTENDS Integers, Sequences, FiniteSets, TLC

VARIABLES
    data,       \* the graph snapshot handed to the renderers: [nodes, edges]
    received,   \* the snapshot as it was received from the data fetch
    phase,      \* position of the pure pipeline driver
    dedup1,     \* variant -> result of combineIdenticalNodes(data)
    dedup2,     \* variant -> result of combineIdenticalNodes(dedup1[variant])
    mounted,    \* the renderer the snapshot is mounted in
    canvas,     \* [width, height] of the host view
    layout1,    \* result of the first layout pass over the snapshot
    layout2,    \* result of a second layout pass over the same snapshot
    sim,        \* the d3 force simulation of the force-directed renderer
    drag,       \* the drag gesture: its subject (0: none) and the gestures so far
    effects,    \* life cycle of the layout effect of ForceDirectedGraph
    trav,       \* an ancestry traversal in progress: its queue and its sets
    route       \* a call of the edge router: its arguments and its path

vars == <<data, received, phase, dedup1, dedup2, mounted, canvas, layout1, layout2,
          sim, drag, effects, trav, route>>

\* The state of the force-directed renderer's simulation and effect, of the
\* traversal and of the router call.
simVars == <<sim, drag, effects, trav, route>>

(***************************************************************************)
(* Bounds of the explored input graphs.                                    *)
(***************************************************************************)
NumNodes == 3
MaxEdges == 3

NodeIds == 1..NumNodes

\* Bounds of the graphs fed to the layout pipelines.
NumLayoutNodes == 4
MaxLayoutEdges == 2

LayoutIds == 1..NumLayoutNodes

\* Size of the snapshots that are laid out twice.
NumRelayoutNodes == 5

RelayoutIds == 1..NumRelayoutNodes

\* (time, is_sample) combinations of the nodes of a snapshot laid out.  With
\* edges from the larger to the smaller time (time counted backwards, the
\* source is the parent) the samples have the smallest time; with edges from
\* the smaller to the larger time ("source is earlier in time than target")
\* the samples have the largest time.
LayoutKinds(orient) ==
    IF orient = "older_to_younger"
    THEN { [time |-> 0, is_sample |-> TRUE],
           [time |-> 1, is_sample |-> FALSE],
           [time |-> 2, is_sample |-> FALSE] }
    ELSE { [time |-> 0, is_sample |-> FALSE],
           [time |-> 1, is_sample |-> FALSE],
           [time |-> 2, is_sample |-> TRUE] }

\* Canvas sizes in units of 0.01 px: 1200 x 800 px.
Canvases == { [width |-> 120000, height |-> 80000] }

\* The three implementations of combineIdenticalNodes.
Variants == {"force", "deckgl", "spatial"}

\* (time, is_sample) combinations of the nodes of the snapshots fed to the
\* deduplicator: samples and internal nodes may share a time.
DedupKinds ==
    { [time |-> 1, is_sample |-> TRUE],
      [time |-> 1, is_sample |-> FALSE],
      [time |-> 2, is_sample |-> FALSE] }

\* Genomic intervals [left, right) an edge may carry.
Intervals == { [left |-> 0, right |-> 5], [left |-> 5, right |-> 10] }

\* How the optional `location` field is filled in a snapshot:
\* absent, the same point for every node, or alternating points.
LocPatterns == {"none", "same", "alt"}

\* Edge orientation of a snapshot with respect to time.
Orientations == {"older_to_younger", "younger_to_older"}

None == <<>>
Some(v) == <<v>>
IsDefined(o) == o # <<>>
Val(o) == o[1]

Min(a, b) == IF a <= b THEN a ELSE b
Max(a, b) == IF a >= b THEN a ELSE b

(***************************************************************************)
(* Graph snapshots (GraphData)                                             *)
(***************************************************************************)
LocationOf(pattern, id) ==
    CASE pattern = "none" -> None
      [] pattern = "same" -> Some([x |-> 0, y |-> 0])
      [] OTHER            -> Some([x |-> id % 2, y |-> 0])

MkNode(id, kind, pattern) ==
    [ id |-> id, time |-> kind.time, is_sample |-> kind.is_sample,
      individual |-> id, location |-> LocationOf(pattern, id),
      is_combined |-> FALSE, combined_nodes |-> <<>>,
      timeIndex |-> None, layer |-> None, degree |-> None,
      x |-> None, y |-> None, fx |-> None ]

MkEdge(s, t, iv) == [source |-> s, target |-> t, left |-> iv.left, right |-> iv.right]

\* All edges a snapshot with the given node kinds and orientation may hold:
\* an edge joins two nodes of different time.
CandidateEdges(ids, kinds, orient, ivs) ==
    { e \in { MkEdge(s, t, iv) : s \in ids, t \in ids, iv \in ivs } :
        IF orient = "older_to_younger"
        THEN kinds[e.source].time > kinds[e.target].time
        ELSE kinds[e.source].time < kinds[e.target].time }

EdgeOrder(e) == (e.source * 16 + e.target) * 16 + e.left

RECURSIVE SetToSeq(_)
SetToSeq(S) ==
    IF S = {} THEN <<>>
    ELSE LET m == CHOOSE e \in S : \A f \in S : EdgeOrder(e) <= EdgeOrder(f)
         IN <<m>> \o SetToSeq(S \ {m})

\* Subsets of S with at most k elements.
RECURSIVE SubsetsUpTo(_, _)
SubsetsUpTo(S, k) ==
    IF k = 0 \/ S = {} THEN {{}}
    ELSE LET m == CHOOSE e \in S : TRUE
             rest == S \ {m}
         IN SubsetsUpTo(rest, k) \cup { T \cup {m} : T \in SubsetsUpTo(rest, k - 1) }

(***************************************************************************)
(* Node Deduplicator                                                       *)
(***************************************************************************)
GetConnectedEdges(node, edges) ==
    SelectSeq(edges, LAMBDA e : e.source = node.id \/ e.target = node.id)

\* The set of ids at the other end of the given edges of node `id`.
ConnectedNodes(id, es) ==
    { es[i].source : i \in { j \in DOMAIN es : es[j].source # id } } \cup
    { es[i].target : i \in { j \in DOMAIN es : es[j].target # id } }

HaveIdenticalRelationships(node1, node2, edges) ==
    LET edges1 == GetConnectedEdges(node1, edges)
        edges2 == GetConnectedEdges(node2, edges)
    IN /\ Len(edges1) = Len(edges2)
       /\ ConnectedNodes(node1.id, edges1) = ConnectedNodes(node2.id, edges2)

HaveIdenticalRelationshipsAndLocation(node1, node2, edges) ==
    /\ IsDefined(node1.location) /\ IsDefined(node2.location)
    /\ Val(node1.location).x = Val(node2.location).x
    /\ Val(node1.location).y = Val(node2.location).y
    /\ HaveIdenticalRelationships(node1, node2, edges)

\* Mutation of CanCombine: merge on time and relationships alone.
CanCombineIgnoringSampleFlag(variant, node1, node2, edges) ==
    /\ node1.time = node2.time
    /\ IF variant = "spatial"
       THEN HaveIdenticalRelationshipsAndLocation(node1, node2, edges)
       ELSE HaveIdenticalRelationships(node1, node2, edges)

\* The test of the inner loop: may node2 join the group opened by node1?
CanCombine(variant, node1, node2, edges) ==
    /\ ~node2.is_sample
    /\ node1.time = node2.time
    /\ node1.is_sample = node2.is_sample
    /\ IF variant = "spatial"
       THEN HaveIdenticalRelationshipsAndLocation(node1, node2, edges)
       ELSE HaveIdenticalRelationships(node1, node2, edges)

\* Inner loop j = i+1 .. n: the members of node i's group, in input order.
RECURSIVE IdenticalNodes(_, _, _, _, _, _)
IdenticalNodes(variant, nodes, edges, i, j, processed) ==
    IF j > Len(nodes) THEN <<>>
    ELSE IF nodes[j].id \notin processed /\ CanCombine(variant, nodes[i], nodes[j], edges)
         THEN <<nodes[j]>> \o IdenticalNodes(variant, nodes, edges, i, j + 1, processed)
         ELSE IdenticalNodes(variant, nodes, edges, i, j + 1, processed)

SeqIds(s) == [k \in DOMAIN s |-> s[k].id]
IdSet(s) == { s[k].id : k \in DOMAIN s }

\* First pass of combineIdenticalNodes: outer loop i = 1 .. n.
\* st = [newNodes, nodeMap, processed]; nodeMap is a function on the ids set so far.
RECURSIVE NodePass(_, _, _, _, _)
NodePass(variant, nodes, edges, i, st) ==
    IF i > Len(nodes) THEN st
    ELSE
      LET node1 == nodes[i] IN
      IF node1.id \in st.processed
      THEN NodePass(variant, nodes, edges, i + 1, st)
      ELSE IF node1.is_sample
      THEN NodePass(variant, nodes, edges, i + 1,
             [ newNodes  |-> Append(st.newNodes, node1),
               nodeMap   |-> (node1.id :> node1.id) @@ st.nodeMap,
               processed |-> st.processed \cup {node1.id} ])
      ELSE
        LET others == IdenticalNodes(variant, nodes, edges, i, i + 1, st.processed)
            identicalNodes == <<node1>> \o others
            ids == IdSet(identicalNodes)
        IN IF Len(identicalNodes) > 1
           THEN NodePass(variant, nodes, edges, i + 1,
                  [ newNodes  |-> Append(st.newNodes,
                                    [node1 EXCEPT !.is_combined = TRUE,
                                                  !.combined_nodes = SeqIds(identicalNodes)]),
                    nodeMap   |-> [k \in ids |-> node1.id] @@ st.nodeMap,
                    processed |-> st.processed \cup ids ])
           ELSE NodePass(variant, nodes, edges, i + 1,
                  [ newNodes  |-> Append(st.newNodes, node1),
                    nodeMap   |-> (node1.id :> node1.id) @@ st.nodeMap,
                    processed |-> st.processed \cup {node1.id} ])

Remap(edge, nodeMap) ==
    [edge EXCEPT !.source = nodeMap[edge.source], !.target = nodeMap[edge.target]]

Mapped(edge, nodeMap) ==
    edge.source \in DOMAIN nodeMap /\ edge.target \in DOMAIN nodeMap

\* Second pass of the force-directed variant: every mapped edge is kept.
RECURSIVE EdgePassForce(_, _, _)
EdgePassForce(edges, k, nodeMap) ==
    IF k > Len(edges) THEN <<>>
    ELSE IF Mapped(edges[k], nodeMap)
         THEN <<Remap(edges[k], nodeMap)>> \o EdgePassForce(edges, k + 1, nodeMap)
         ELSE EdgePassForce(edges, k + 1, nodeMap)

\* `${Math.min(newSource, newTarget)}-${Math.max(newSource, newTarget)}`
EdgeKey(e) == <<Min(e.source, e.target), Max(e.source, e.target)>>

\* Second pass of the DeckGL and spatial variants: self-loops are dropped and
\* one edge is kept per unordered pair of endpoints.
RECURSIVE EdgePassKeyed(_, _, _, _)
EdgePassKeyed(edges, k, nodeMap, edgeSet) ==
    IF k > Len(edges) THEN <<>>
    ELSE IF Mapped(edges[k], nodeMap)
         THEN LET ne == Remap(edges[k], nodeMap) IN
              IF ne.source # ne.target /\ EdgeKey(ne) \notin edgeSet
              THEN <<ne>> \o EdgePassKeyed(edges, k + 1, nodeMap, edgeSet \cup {EdgeKey(ne)})
              ELSE EdgePassKeyed(edges, k + 1, nodeMap, edgeSet)
         ELSE EdgePassKeyed(edges, k + 1, nodeMap, edgeSet)

EmptyMap == [k \in {} |-> 0]

CombineIdenticalNodes(variant, nodes, edges) ==
    LET st == NodePass(variant, nodes, edges, 1,
                [newNodes |-> <<>>, nodeMap |-> EmptyMap, processed |-> {}])
    IN [ nodes   |-> st.newNodes,
         edges   |-> IF variant = "force"
                     THEN EdgePassForce(edges, 1, st.nodeMap)
                     ELSE EdgePassKeyed(edges, 1, st.nodeMap, {}),
         nodeMap |-> st.nodeMap ]

(***************************************************************************)
(* Rank Assigner and Ancestry Index                                        *)
(*                                                                         *)
(* Lengths are integers in units of 0.01 px; a JavaScript division is the  *)
(* integer quotient.                                                       *)
(***************************************************************************)
Renderers == {"force", "deckgl"}

\* nodes.find(n => n.id === id)
FindNode(nodes, id) ==
    LET hits == { k \in DOMAIN nodes : nodes[k].id = id }
    IN IF hits = {} THEN None
       ELSE Some(nodes[CHOOSE k \in hits : \A j \in hits : k <= j])

\* Distinct times of the list in order of first appearance.
RECURSIVE FirstSeenTimes(_, _, _)
FirstSeenTimes(nodes, k, seen) ==
    IF k > Len(nodes) THEN seen
    ELSE IF \E j \in DOMAIN seen : seen[j] = nodes[k].time
         THEN FirstSeenTimes(nodes, k + 1, seen)
         ELSE FirstSeenTimes(nodes, k + 1, Append(seen, nodes[k].time))

\* timeLayers.get(time): the size the map had when the time was first met.
IndexOf(seq, v) == (CHOOSE j \in DOMAIN seq : seq[j] = v) - 1

\* Mutation of LayerOfTime: layers numbered by ascending time.
LayerOfTimeSorted(nodes, time) ==
    Cardinality({ t \in { nodes[k].time : k \in DOMAIN nodes } : t < time })

LayerOfTime(nodes, time) == IndexOf(FirstSeenTimes(nodes, 1, <<>>), time)

\* assignLayers of both renderers; the force-directed one also sets degree.
AssignLayers(renderer, nodes, edges) ==
    [ k \in DOMAIN nodes |->
        IF renderer = "force"
        THEN [nodes[k] EXCEPT !.layer = Some(LayerOfTime(nodes, nodes[k].time)),
                              !.degree = Some(Len(GetConnectedEdges(nodes[k], edges)))]
        ELSE [nodes[k] EXCEPT !.layer = Some(LayerOfTime(nodes, nodes[k].time))] ]

\* Array.prototype.sort((a, b) => a - b): v is put in front of the first
\* larger element of the sorted list.
InsertSorted(sorted, v) ==
    LET before == SelectSeq(sorted, LAMBDA w : w <= v)
        after  == SelectSeq(sorted, LAMBDA w : w > v)
    IN before \o <<v>> \o after

RECURSIVE SortAscending(_)
SortAscending(seq) ==
    IF seq = <<>> THEN <<>>
    ELSE InsertSorted(SortAscending(SubSeq(seq, 1, Len(seq) - 1)), seq[Len(seq)])

\* Mutation of UniqueTimes: the distinct times are left in order of first
\* appearance.
UnsortedTimes(nodes) == FirstSeenTimes(nodes, 1, <<>>)

\* Array.from(new Set(nodes.map(n => n.time))).sort((a, b) => a - b)
UniqueTimes(nodes) == SortAscending(FirstSeenTimes(nodes, 1, <<>>))

\* timeToIndex.get(node.time) ?? 0 and timeToRank.get(node.time) || 0
TimeToIndex(nodes, time) ==
    IF \E j \in DOMAIN UniqueTimes(nodes) : UniqueTimes(nodes)[j] = time
    THEN IndexOf(UniqueTimes(nodes), time)
    ELSE 0

\* combinedNodes.forEach(node => { node.timeIndex = ... })
AssignTimeIndex(nodes) ==
    [ k \in DOMAIN nodes |->
        [nodes[k] EXCEPT !.timeIndex = Some(TimeToIndex(nodes, nodes[k].time))] ]

\* node.layer || 0
LayerOr0(n) == IF IsDefined(n.layer) THEN Val(n.layer) ELSE 0

\* The rank the ancestry queries compare: layer in DeckGL, timeIndex in the
\* force-directed renderer.
Rank(renderer, n) == IF renderer = "deckgl" THEN LayerOr0(n) ELSE Val(n.timeIndex)

\* Mutation of IsIncomingFromLowerRank: every incoming edge counts.
IsIncoming(renderer, e, node, nodes) ==
    LET source == FindNode(nodes, e.source)
        target == FindNode(nodes, e.target)
    IN IsDefined(target) /\ Val(target).id = node.id /\ IsDefined(source)

IsIncomingFromLowerRank(renderer, e, node, nodes) ==
    LET source == FindNode(nodes, e.source)
        target == FindNode(nodes, e.target)
    IN /\ IsDefined(target) /\ Val(target).id = node.id
       /\ IsDefined(source)
       /\ IF renderer = "deckgl"
          THEN ~IsDefined(Val(source).layer) \/ Val(Val(source).layer) < LayerOr0(node)
          ELSE Val(Val(source).timeIndex) < Val(node.timeIndex)

\* getParent: the source of the first incoming edge from a lower rank.
GetParent(renderer, node, nodes, edges) ==
    LET incomingEdges ==
          SelectSeq(edges, LAMBDA e : IsIncomingFromLowerRank(renderer, e, node, nodes))
    IN IF incomingEdges = <<>> THEN None
       ELSE FindNode(nodes, incomingEdges[1].source)

IsOutgoingToHigherRank(renderer, e, current, nodes) ==
    LET source == FindNode(nodes, e.source)
        target == FindNode(nodes, e.target)
    IN /\ IsDefined(source) /\ Val(source).id = current.id
       /\ IsDefined(target)
       /\ Rank(renderer, Val(target)) > Rank(renderer, current)

\* The loop of getDescendantSamples: queue of nodes, visited ids, and the
\* ids of the samples found so far.
RECURSIVE DescendantSearch(_, _, _, _, _, _)
DescendantSearch(renderer, queue, visited, descendants, nodes, edges) ==
    IF queue = <<>> THEN descendants
    ELSE
      LET current == Head(queue) IN
      IF current.id \in visited
      THEN DescendantSearch(renderer, Tail(queue), visited, descendants, nodes, edges)
      ELSE
        LET nowVisited == visited \cup {current.id}
            outgoingEdges ==
              SelectSeq(edges, LAMBDA e : IsOutgoingToHigherRank(renderer, e, current, nodes))
            targets == [ k \in DOMAIN outgoingEdges |->
                           Val(FindNode(nodes, outgoingEdges[k].target)) ]
            found == { targets[k].id : k \in { j \in DOMAIN targets : targets[j].is_sample } }
            pushed == SelectSeq(targets, LAMBDA t : ~t.is_sample /\ t.id \notin nowVisited)
        IN DescendantSearch(renderer, Tail(queue) \o pushed, nowVisited,
                            descendants \cup found, nodes, edges)

\* getDescendantSamples, as the set of ids of the samples it returns.
GetDescendantSamples(renderer, node, nodes, edges) ==
    DescendantSearch(renderer, <<node>>, {}, {}, nodes, edges)

SetMin(S) == CHOOSE m \in S : \A v \in S : m <= v
SetMax(S) == CHOOSE m \in S : \A v \in S : m >= v

\* descendantSamples.map(n => n.x).filter(x => x !== undefined)
SampleXValues(ids, nodes) ==
    { Val(nodes[k].x) :
        k \in { j \in DOMAIN nodes : nodes[j].id \in ids /\ IsDefined(nodes[j].x) } }

\* { min: Math.min(...xValues), max: Math.max(...xValues) }, or null
XRange(xValues) ==
    IF xValues = {} THEN None
    ELSE Some([min |-> SetMin(xValues), max |-> SetMax(xValues)])

\* getDescendantSampleRange: None when there is no descendant sample.
GetDescendantSampleRange(renderer, node, nodes, edges) ==
    XRange(SampleXValues(GetDescendantSamples(renderer, node, nodes, edges), nodes))

(***************************************************************************)
(* Layer Positioner                                                        *)
(***************************************************************************)
\* Array.prototype.sort is stable: `item` goes behind every element that the
\* comparison does not put after it.  Elements are [key, item] records and
\* the comparison is ascending by key.
RECURSIVE StableSortByKey(_)
StableSortByKey(s) ==
    IF s = <<>> THEN <<>>
    ELSE LET sorted == StableSortByKey(SubSeq(s, 1, Len(s) - 1))
             p == s[Len(s)]
             c == Cardinality({ k \in DOMAIN sorted : sorted[k].key <= p.key })
         IN SubSeq(sorted, 1, c) \o <<p>> \o SubSeq(sorted, c + 1, Len(sorted))

Items(s) == [ k \in DOMAIN s |-> s[k].item ]

\* width * 0.1
XPadding(width) == width \div 10

\* First pass of calculateArgLayout: samples sorted by individual, spread over
\* the middle 80% of the width, all on the bottom line.
PlaceSamplesDeck(nodes, width, height, layerHeight) ==
    LET sampleNodes == SelectSeq(nodes, LAMBDA n : n.is_sample)
        order == Items(StableSortByKey(
                   [ k \in DOMAIN sampleNodes |->
                       [key |-> sampleNodes[k].individual, item |-> sampleNodes[k].id] ]))
        n == Len(order)
        XOf(id) == XPadding(width) +
                   ((IndexOf(order, id) * ((width * 8) \div 10)) \div Max(n - 1, 1))
    IN [ k \in DOMAIN nodes |->
           IF nodes[k].is_sample
           THEN [nodes[k] EXCEPT !.x = Some(XOf(nodes[k].id)),
                                 !.y = Some(height - layerHeight)]
           ELSE nodes[k] ]

PlaceSamplesAscending(nodes, width) ==
    LET sampleNodes == SelectSeq(nodes, LAMBDA n : n.is_sample)
        order == Items(StableSortByKey(
                   [ k \in DOMAIN sampleNodes |->
                       [key |-> Val(sampleNodes[k].degree), item |-> sampleNodes[k].id] ]))
        n == Len(order)
        availableWidth == width - 2 * XPadding(width)
        sampleSpacing == availableWidth \div (IF n - 1 = 0 THEN 1 ELSE n - 1)
        XOf(id) == XPadding(width) + IndexOf(order, id) * sampleSpacing
    IN [ k \in DOMAIN nodes |->
           IF nodes[k].is_sample
           THEN [nodes[k] EXCEPT !.x = Some(XOf(nodes[k].id)),
                                 !.fx = Some(XOf(nodes[k].id))]
           ELSE nodes[k] ]

\* Sample placement of the force-directed renderer: samples sorted by
\* descending degree, spread over the middle 80%, and pinned (fx).
PlaceSamplesForce(nodes, width) ==
    LET sampleNodes == SelectSeq(nodes, LAMBDA n : n.is_sample)
        order == Items(StableSortByKey(
                   [ k \in DOMAIN sampleNodes |->
                       [key |-> 0 - Val(sampleNodes[k].degree), item |-> sampleNodes[k].id] ]))
        n == Len(order)
        availableWidth == width - 2 * XPadding(width)
        sampleSpacing == availableWidth \div (IF n - 1 = 0 THEN 1 ELSE n - 1)
        XOf(id) == XPadding(width) + IndexOf(order, id) * sampleSpacing
    IN [ k \in DOMAIN nodes |->
           IF nodes[k].is_sample
           THEN [nodes[k] EXCEPT !.x = Some(XOf(nodes[k].id)),
                                 !.fx = Some(XOf(nodes[k].id))]
           ELSE nodes[k] ]

\* parent?.id ?? -1
ParentIdOf(renderer, node, nodes, edges) ==
    LET parent == GetParent(renderer, node, nodes, edges)
    IN IF IsDefined(parent) THEN Val(parent).id ELSE 0 - 1

\* parentGroups: the nodes of the layer grouped by parent id, groups and
\* members in insertion order.
RECURSIVE ParentGroups(_, _, _, _, _, _)
ParentGroups(renderer, layerNodes, k, groups, nodes, edges) ==
    IF k > Len(layerNodes) THEN groups
    ELSE
      LET node == layerNodes[k]
          parentId == ParentIdOf(renderer, node, nodes, edges)
          at == { g \in DOMAIN groups : groups[g].parentId = parentId }
      IN IF at = {}
         THEN ParentGroups(renderer, layerNodes, k + 1,
                Append(groups, [parentId |-> parentId, group |-> <<node>>]), nodes, edges)
         ELSE ParentGroups(renderer, layerNodes, k + 1,
                [ g \in DOMAIN groups |->
                    IF g \in at
                    THEN [groups[g] EXCEPT !.group = Append(@, node)]
                    ELSE groups[g] ], nodes, edges)

\* group.sort((a, b) => bSamples - aSamples)
SortGroupBySamples(renderer, group, nodes, edges) ==
    Items(StableSortByKey(
      [ k \in DOMAIN group |->
          [ key  |-> 0 - Cardinality(GetDescendantSamples(renderer, group[k], nodes, edges)),
            item |-> group[k] ] ]))

\* The comparison of the group sort: the parentless group first, the others
\* by the x their parent has at this moment (0 when it has none yet).
GroupCompare(a, b, nodes) ==
    IF a.parentId = 0 - 1 THEN 0 - 1
    ELSE IF b.parentId = 0 - 1 THEN 1
    ELSE LET parentA == FindNode(nodes, a.parentId)
             parentB == FindNode(nodes, b.parentId)
             xA == IF IsDefined(parentA) /\ IsDefined(Val(parentA).x) THEN Val(Val(parentA).x) ELSE 0
             xB == IF IsDefined(parentB) /\ IsDefined(Val(parentB).x) THEN Val(Val(parentB).x) ELSE 0
         IN xA - xB

RECURSIVE SortGroups(_, _)
SortGroups(groups, nodes) ==
    IF groups = <<>> THEN <<>>
    ELSE LET sorted == SortGroups(SubSeq(groups, 1, Len(groups) - 1), nodes)
             p == groups[Len(groups)]
             c == Cardinality({ k \in DOMAIN sorted : GroupCompare(sorted[k], p, nodes) <= 0 })
         IN SubSeq(sorted, 1, c) \o <<p>> \o SubSeq(sorted, c + 1, Len(sorted))

\* Mutation of ClampToRange: the interpolated position is used as it is.
NoClamp(range, x) == x

\* Math.max(range.min, Math.min(range.max, x))
ClampToRange(range, x) == Max(range.min, Min(range.max, x))

\* The x the positioner gives the node at place `index` (from 0) of the group
\* that starts at currentX.
PlacedX(renderer, node, index, currentX, nodeSpacing, nodes, edges) ==
    LET descendantRange == GetDescendantSampleRange(renderer, node, nodes, edges)
        idealX == currentX + (index + 1) * nodeSpacing
    IN IF IsDefined(descendantRange)
       THEN ClampToRange(Val(descendantRange), idealX)
       ELSE idealX

\* layerNodes: the nodes of the layer (DeckGL: its non-sample nodes).
LayerNodes(renderer, nodes, layer) ==
    SelectSeq(nodes, LAMBDA n : n.layer = Some(layer) /\
                                 (renderer = "deckgl" => ~n.is_sample))

\* Every parent group sorted by descendant-sample count.
SortEachGroup(renderer, grouped, nodes, edges) ==
    [ g \in DOMAIN grouped |->
        [grouped[g] EXCEPT !.group = SortGroupBySamples(renderer, @, nodes, edges)] ]

\* sortedGroups of a layer.
SortedGroups(renderer, layerNodes, nodes, edges) ==
    SortGroups(SortEachGroup(renderer,
                             ParentGroups(renderer, layerNodes, 1, <<>>, nodes, edges),
                             nodes, edges),
               nodes)

\* The forEach over sortedGroups: every non-sample node of the layer gets
\* its x (DeckGL: and its y).  Yields the node list and the ids placed.
PlaceGroups(renderer, nodes, edges, layer, width, height, layerHeight, layerNodes, sortedGroups) ==
    LET xPadding == XPadding(width)
        availableWidth == width - 2 * xPadding
        groupWidth == IF renderer = "deckgl"
                      THEN availableWidth \div Len(sortedGroups)
                      ELSE ((availableWidth * 8) \div 10) \div Len(sortedGroups)
        GroupOf(id) == CHOOSE g \in DOMAIN sortedGroups :
                         \E i \in DOMAIN sortedGroups[g].group : sortedGroups[g].group[i].id = id
        IndexIn(group, id) == (CHOOSE i \in DOMAIN group : group[i].id = id) - 1
        NewX(n, g) ==
            PlacedX(renderer, n, IndexIn(sortedGroups[g].group, n.id),
                    xPadding + (g - 1) * groupWidth,
                    groupWidth \div (Len(sortedGroups[g].group) + 1), nodes, edges)
        moved == { layerNodes[k].id : k \in { j \in DOMAIN layerNodes : ~layerNodes[j].is_sample } }
    IN [ nodes |->
           [ k \in DOMAIN nodes |->
               IF nodes[k].id \in moved
               THEN [nodes[k] EXCEPT
                       !.x = Some(NewX(nodes[k], GroupOf(nodes[k].id))),
                       !.y = IF renderer = "deckgl"
                             THEN Some(height - (layer + 1) * layerHeight)
                             ELSE @]
               ELSE nodes[k] ],
         placed |-> moved ]

\* optimizeLayerPositions returns at once for a layer of at most one node;
\* the DeckGL loop body does nothing for a layer without groups.
PositionLayerNodes(renderer, nodes, edges, layer, width, height, layerHeight, layerNodes) ==
    IF (renderer = "force" /\ Len(layerNodes) <= 1) \/ layerNodes = <<>>
    THEN [nodes |-> nodes, placed |-> {}]
    ELSE PlaceGroups(renderer, nodes, edges, layer, width, height, layerHeight,
                     layerNodes, SortedGroups(renderer, layerNodes, nodes, edges))

\* One layer of the second pass of calculateArgLayout / one call of
\* optimizeLayerPositions.
PositionLayer(renderer, nodes, edges, layer, width, height, layerHeight) ==
    PositionLayerNodes(renderer, nodes, edges, layer, width, height, layerHeight,
                       LayerNodes(renderer, nodes, layer))

\* The node list after a layer and the ids placed so far.
AfterLayer(st, r) == [nodes |-> r.nodes, placed |-> st.placed \cup r.placed]

\* The layers in the order the renderer walks them.
RECURSIVE PositionLayers(_, _, _, _, _, _, _)
PositionLayers(renderer, st, edges, layers, width, height, layerHeight) ==
    IF layers = <<>> THEN st
    ELSE PositionLayers(renderer,
                        AfterLayer(st, PositionLayer(renderer, st.nodes, edges, Head(layers),
                                                     width, height, layerHeight)),
                        edges, Tail(layers), width, height, layerHeight)

(***************************************************************************)
(* The pure pipelines: dedup, rank assignment, layer positioning           *)
(***************************************************************************)
\* layer = from, from - 1, ..., 0
RECURSIVE LayersDownFrom(_)
LayersDownFrom(from) ==
    IF from < 0 THEN <<>> ELSE <<from>> \o LayersDownFrom(from - 1)

\* Array.from(new Set(layers)).sort((a, b) => a - b)
RECURSIVE LayersAscending(_)
LayersAscending(S) ==
    IF S = {} THEN <<>> ELSE <<SetMin(S)>> \o LayersAscending(S \ {SetMin(S)})

\* node.x || 0
XOr0(n) == IF IsDefined(n.x) THEN Val(n.x) ELSE 0
YOr0(n) == IF IsDefined(n.y) THEN Val(n.y) ELSE 0

PositionedNodes(nodes) ==
    [ k \in DOMAIN nodes |->
        [nodes[k] EXCEPT !.x = Some(XOr0(nodes[k])), !.y = Some(YOr0(nodes[k]))] ]

\* One positioned edge: the end points of the edge, or zeros when an end
\* point is not among the positioned nodes.
PositionedEdge(e, sourceNode, targetNode) ==
    IF ~IsDefined(sourceNode) \/ ~IsDefined(targetNode)
    THEN [ source |-> e.source, target |-> e.target, left |-> e.left, right |-> e.right,
           sourceX |-> 0, sourceY |-> 0, targetX |-> 0, targetY |-> 0 ]
    ELSE [ source |-> e.source, target |-> e.target, left |-> e.left, right |-> e.right,
           sourceX |-> Val(Val(sourceNode).x), sourceY |-> Val(Val(sourceNode).y),
           targetX |-> Val(Val(targetNode).x), targetY |-> Val(Val(targetNode).y) ]

PositionedEdges(edges, positionedNodes) ==
    [ k \in DOMAIN edges |->
        PositionedEdge(edges[k], FindNode(positionedNodes, edges[k].source),
                       FindNode(positionedNodes, edges[k].target)) ]

\* What a layout run leaves: the node and edge lists it worked on, the ids
\* the layer positioner placed, and the records handed to the drawing code.
LayoutResult(combinedNodes, combinedEdges, placed, positionedNodes, positionedEdges) ==
    [ combinedNodes   |-> combinedNodes,
      combinedEdges   |-> combinedEdges,
      placed          |-> placed,
      positionedNodes |-> positionedNodes,
      positionedEdges |-> positionedEdges ]

\* Step 4 of calculateArgLayout.
DeckOutput(st, combinedEdges, positionedNodes) ==
    LayoutResult(st.nodes, combinedEdges, st.placed, positionedNodes,
                 PositionedEdges(combinedEdges, positionedNodes))

\* Step 3 of calculateArgLayout: samples first, then the layers
\* numLayers - 2 down to 0.
DeckPositioned(layered, combinedEdges, width, height, numLayers, layerHeight) ==
    PositionLayers("deckgl",
                   [nodes |-> PlaceSamplesDeck(layered, width, height, layerHeight),
                    placed |-> {}],
                   combinedEdges, LayersDownFrom(numLayers - 2), width, height, layerHeight)

NumLayers(layered) == SetMax({ LayerOr0(layered[k]) : k \in DOMAIN layered }) + 1

DeckPositionedNodes(st, combinedEdges) ==
    DeckOutput(st, combinedEdges, PositionedNodes(st.nodes))

DeckLayered(layered, combinedEdges, width, height, numLayers) ==
    DeckPositionedNodes(DeckPositioned(layered, combinedEdges, width, height, numLayers,
                                       height \div (numLayers + 1)),
                        combinedEdges)

DeckCombined(combined, width, height, layered) ==
    DeckLayered(layered, combined.edges, width, height, NumLayers(layered))

\* Steps 1 and 2 of calculateArgLayout.
DeckLayout(combined, width, height) ==
    DeckCombined(combined, width, height,
                 AssignLayers("deckgl", combined.nodes, combined.edges))

\* calculateArgLayout of the DeckGL renderer.
CalculateArgLayout(nodes, edges, width, height) ==
    DeckLayout(CombineIdenticalNodes("deckgl", nodes, edges), width, height)

ForceOutput(st, combinedEdges) ==
    LayoutResult(st.nodes, combinedEdges, st.placed, st.nodes, combinedEdges)

\* Sample placement and the optimizeLayerPositions loop over the layers.
ForceLayered(layered, combinedEdges, width, height) ==
    ForceOutput(
      PositionLayers("force",
                     [nodes |-> PlaceSamplesForce(layered, width), placed |-> {}],
                     combinedEdges,
                     LayersAscending({ Val(layered[k].layer) : k \in DOMAIN layered }),
                     width, height, 0),
      combinedEdges)

\* timeIndex, then assignLayers.
ForceLayout(combined, width, height) ==
    ForceLayered(AssignLayers("force", AssignTimeIndex(combined.nodes), combined.edges),
                 combined.edges, width, height)

\* The layout effect of ForceDirectedGraph up to the creation of the
\* simulation: dedup, timeIndex, assignLayers, samples, optimizeLayerPositions.
ForceInitialLayout(nodes, edges, width, height) ==
    ForceLayout(CombineIdenticalNodes("force", nodes, edges), width, height)

RunPipeline(renderer, nodes, edges, size) ==
    IF renderer = "deckgl"
    THEN CalculateArgLayout(nodes, edges, size.width, size.height)
    ELSE ForceInitialLayout(nodes, edges, size.width, size.height)

\* The snapshot after a pipeline run.  newNodes.push(node1) puts the input
\* object itself into combinedNodes, so what the pipeline writes to such a
\* node is written to the snapshot; a combined node is a fresh copy.
SnapshotAfter(nodes, combinedNodes) ==
    [ k \in DOMAIN nodes |->
        LET w == FindNode(combinedNodes, nodes[k].id)
        IN IF IsDefined(w) /\ ~Val(w).is_combined THEN Val(w) ELSE nodes[k] ]

(***************************************************************************)
(* Dedup driver: one pass over the snapshot, then a pass over its output.  *)
(***************************************************************************)
\* No simulation has been created, no gesture is going on, and the component
\* is not mounted.
NoSimulation ==
    [ alpha |-> 0, alphaTarget |-> 0, running |-> FALSE, nodes |-> <<>>, edges |-> <<>> ]

NoDrag == [subject |-> 0, count |-> 0, ticks |-> 0]

NoEffects == [mounted |-> FALSE, runs |-> 0, simulations |-> <<>>, dom |-> 0, gesture |-> 0]

\* No traversal has been started, the router has not been called.
NoTraversal == [kind |-> "none"]

NoRoute == [called |-> FALSE]

NoResult == [nodes |-> <<>>, edges |-> <<>>, nodeMap |-> EmptyMap]

NoLayout == [ combinedNodes |-> <<>>, combinedEdges |-> <<>>, placed |-> {},
              positionedNodes |-> <<>>, positionedEdges |-> <<>> ]

\* The node list of a snapshot is in ascending or in descending order of id.
NodeOrders == { "ascending", "descending" }

\* The id of the node at position i of the node list.
IdAt(order, i) == IF order = "ascending" THEN i ELSE NumNodes + 1 - i

InitDedup ==
    /\ \E kinds \in [NodeIds -> DedupKinds], pattern \in LocPatterns, orient \in Orientations :
         \E es \in SubsetsUpTo(CandidateEdges(NodeIds, kinds, orient, Intervals), MaxEdges) :
         \E order \in NodeOrders :
           data = [ nodes |-> [i \in NodeIds |->
                                 MkNode(IdAt(order, i), kinds[IdAt(order, i)], pattern)],
                    edges |-> SetToSeq(es) ]
    /\ received = data
    /\ phase = "input"
    /\ dedup1 = [v \in Variants |-> NoResult]
    /\ dedup2 = [v \in Variants |-> NoResult]
    /\ mounted = "deckgl"
    /\ canvas \in Canvases
    /\ layout1 = NoLayout
    /\ layout2 = NoLayout
    /\ sim = NoSimulation
    /\ drag = NoDrag
    /\ effects = NoEffects
    /\ trav = NoTraversal
    /\ route = NoRoute

RunDedup ==
    /\ phase = "input"
    /\ dedup1' = [v \in Variants |-> CombineIdenticalNodes(v, data.nodes, data.edges)]
    /\ phase' = "deduped"
    /\ UNCHANGED <<data, received, dedup2, mounted, canvas, layout1, layout2>>
    /\ UNCHANGED simVars

RunDedupAgain ==
    /\ phase = "deduped"
    /\ dedup2' = [v \in Variants |->
                    CombineIdenticalNodes(v, dedup1[v].nodes, dedup1[v].edges)]
    /\ phase' = "rededuped"
    /\ UNCHANGED <<data, received, dedup1, mounted, canvas, layout1, layout2>>
    /\ UNCHANGED simVars

NextDedup == RunDedup \/ RunDedupAgain

SpecDedup == InitDedup /\ [][NextDedup]_vars

(***************************************************************************)
(* Layout driver: a renderer lays the snapshot out, and lays the same      *)
(* snapshot out once more (useMemo recomputation of calculateArgLayout).   *)
(***************************************************************************)
OneInterval == { [left |-> 0, right |-> 10] }

InitLayoutOf(ids, renderers) ==
    /\ \E orient \in Orientations :
       \E kinds \in [ids -> LayoutKinds(orient)] :
         \E es \in SubsetsUpTo(CandidateEdges(ids, kinds, orient, OneInterval),
                                MaxLayoutEdges) :
           data = [ nodes |-> [i \in ids |-> MkNode(i, kinds[i], "none")],
                    edges |-> SetToSeq(es) ]
    /\ received = data
    /\ phase = "input"
    /\ dedup1 = [v \in Variants |-> NoResult]
    /\ dedup2 = [v \in Variants |-> NoResult]
    /\ mounted \in renderers
    /\ canvas \in Canvases
    /\ layout1 = NoLayout
    /\ layout2 = NoLayout
    /\ sim = NoSimulation
    /\ drag = NoDrag
    /\ effects = NoEffects
    /\ trav = NoTraversal
    /\ route = NoRoute

InitLayout == InitLayoutOf(LayoutIds, Renderers)

RunLayout ==
    /\ phase = "input"
    /\ mounted \in Renderers
    /\ layout1' = RunPipeline(mounted, data.nodes, data.edges, canvas)
    /\ data' = [data EXCEPT !.nodes = SnapshotAfter(data.nodes, layout1'.combinedNodes)]
    /\ phase' = "laidout"
    /\ UNCHANGED <<received, dedup1, dedup2, mounted, canvas, layout2>>
    /\ UNCHANGED simVars

RunLayoutAgain ==
    /\ phase = "laidout"
    /\ mounted = "deckgl"
    /\ layout2' = RunPipeline(mounted, data.nodes, data.edges, canvas)
    /\ data' = [data EXCEPT !.nodes = SnapshotAfter(data.nodes, layout2'.combinedNodes)]
    /\ phase' = "relaidout"
    /\ UNCHANGED <<received, dedup1, dedup2, mounted, canvas, layout1>>
    /\ UNCHANGED simVars

NextLayout == RunLayout \/ RunLayoutAgain

SpecLayout == InitLayout /\ [][NextLayout]_vars

\* The DeckGL renderer recomputing its layout over a snapshot it has laid out.
InitRelayout == InitLayoutOf(RelayoutIds, {"deckgl"})

SpecRelayout == InitRelayout /\ [][NextLayout]_vars

(***************************************************************************)
(* Relaxation loop of the force-directed renderer (d3.forceSimulation)     *)
(*                                                                         *)
(* alpha is kept in units of 0.000001.  The forces link, charge, x, y and   *)
(* collision only change velocities; what they add up to is not computed:  *)
(* the displacement a free node gets from them in one tick is any element  *)
(* of SoftSteps that keeps the node on the canvas.  The y coordinate is not *)
(* modelled.                                                               *)
(***************************************************************************)
\* Bounds of the relaxation runs explored: nodes of the snapshot, drag
\* gestures, and timer ticks during one gesture.
NumRelaxNodes == 2
MaxDrags == 1
MaxDragTicks == 1

RelaxIds == 1..NumRelaxNodes

\* Displacements (0.01 px) the velocity-changing forces give a node per tick.
SoftSteps == { 0 - 60000, 0, 60000 }

\* Pointer positions (0.01 px) a drag event reports.
EventXs == { 0, 60000 }

\* .alpha(0.8), .alphaDecay(0.05), alphaMin of d3 (0.001), alphaTarget(0.3)
InitialAlpha == 800000
AlphaDecayPercent == 5
AlphaMin == 1000
DragAlphaTarget == 300000

\* The tick handler clamps while alpha > 0.1.
ClampAlpha == 100000

\* maxSiblingDistance = 50 px
MaxSiblingDistance == 5000

\* d3's initial placement: 10 * sqrt(0.5 + i) * cos(i * pi * (3 - sqrt(5))).
Phyllotaxis == << 707, 0 - 903, 138, 1138, 0 - 2089, 1979 >>

\* initializeNodes of d3: a node whose x or y is not a number is put on the
\* phyllotaxis spiral (the layout effect never sets y).
InitializeNodes(nodes) ==
    [ k \in DOMAIN nodes |->
        IF ~IsDefined(nodes[k].x) \/ ~IsDefined(nodes[k].y)
        THEN [nodes[k] EXCEPT !.x = Some(Phyllotaxis[k])]
        ELSE nodes[k] ]

\* d3.forceSimulation(combinedNodes).alpha(0.8)... : the timer is started.
CreateSimulation(layout) ==
    [ alpha |-> InitialAlpha, alphaTarget |-> 0, running |-> TRUE,
      nodes |-> InitializeNodes(layout.combinedNodes), edges |-> layout.combinedEdges ]

AlphaHeld(alpha, alphaTarget) == alpha

\* alpha += (alphaTarget - alpha) * alphaDecay
AlphaStep(alpha, alphaTarget) ==
    alpha + ((alphaTarget - alpha) * AlphaDecayPercent) \div 100

Enforced(node, range) ==
    IF IsDefined(range)
    THEN [node EXCEPT !.x = Some(ClampToRange(Val(range), Val(node.x)))]
    ELSE node

\* enforceDescendantRange
EnforceDescendantRange(node, nodes, edges) ==
    Enforced(node, GetDescendantSampleRange("force", node, nodes, edges))

\* combinedNodes.forEach(node => { if (!node.is_sample) enforceDescendantRange(...) })
EnforceRanges(nodes, edges) ==
    [ k \in DOMAIN nodes |->
        IF nodes[k].is_sample THEN nodes[k]
        ELSE EnforceDescendantRange(nodes[k], nodes, edges) ]

\* .force("descendantRange", f) and .force("edgeCrossing", f): d3 calls
\* the registered f(alpha) once per tick.  Each f declares its tickCount
\* and returns the function that would clamp or move the nodes; d3 drops
\* the returned function, so the nodes are left as they are.
CustomForces(nodes) == nodes

RECURSIVE SumX(_)
SumX(s) == IF s = <<>> THEN 0 ELSE XOr0(Head(s)) + SumX(Tail(s))

\* if (node.fx == null) node.x += node.vx *= velocityDecay; else node.x = node.fx
Integrate(nodes, disp) ==
    [ k \in DOMAIN nodes |->
        IF IsDefined(nodes[k].fx)
        THEN [nodes[k] EXCEPT !.x = nodes[k].fx]
        ELSE [nodes[k] EXCEPT !.x = Some(Val(@) + disp[nodes[k].id])] ]

\* simulation.on("tick"): clamps only while alpha > 0.1
TickHandler(alpha, nodes, edges) ==
    IF alpha > ClampAlpha THEN EnforceRanges(nodes, edges) ELSE nodes

\* One step of the d3 timer: tick(), the "tick" event, the halting test.
AfterTick(s, alpha, forced, disp) ==
    [ s EXCEPT
        !.alpha = alpha,
        !.nodes = TickHandler(alpha, Integrate(forced, disp), s.edges),
        !.running = ~(alpha < AlphaMin) ]

\* Ids of the nodes that are not pinned.
FreeIds(nodes) == { nodes[k].id : k \in { j \in DOMAIN nodes : ~IsDefined(nodes[j].fx) } }

\* The displacement keeps the node on the canvas.
OnCanvas(nodes, disp, width) ==
    \A k \in DOMAIN nodes :
      nodes[k].id \in DOMAIN disp =>
        \/ disp[nodes[k].id] = 0
        \/ /\ 0 <= Val(nodes[k].x) + disp[nodes[k].id]
           /\ Val(nodes[k].x) + disp[nodes[k].id] <= width

\* The timer step with the displacements chosen.
Stepped(s, alpha, forced, width) ==
    { AfterTick(s, alpha, forced, disp) :
        disp \in { d \in [FreeIds(forced) -> SoftSteps] : OnCanvas(forced, d, width) } }

StepOf(s, alpha, width) == Stepped(s, alpha, CustomForces(s.nodes), width)

\* getSiblings
SiblingsOf(node, parent, nodes, edges) ==
    IF ~IsDefined(parent) THEN <<>>
    ELSE SelectSeq(nodes, LAMBDA n :
           /\ n.id # node.id
           /\ Val(n.timeIndex) > Val(Val(parent).timeIndex)
           /\ ParentIdOf("force", n, nodes, edges) = Val(parent).id)

GetSiblings(node, nodes, edges) ==
    SiblingsOf(node, GetParent("force", node, nodes, edges), nodes, edges)

\* Math.max(range.min, Math.min(range.max, x)), or the canvas padding
RangeOrPadding(range, x, width) ==
    IF IsDefined(range) THEN ClampToRange(Val(range), x)
    ELSE Max(XPadding(width), Min(width - XPadding(width), x))

\* "If there are siblings, try to keep them together"
NearSiblings(siblings, x) ==
    IF siblings = <<>> THEN x
    ELSE Max((SumX(siblings) \div Len(siblings)) - MaxSiblingDistance,
             Min((SumX(siblings) \div Len(siblings)) + MaxSiblingDistance, x))

\* The fx the drag handler gives its subject.
DraggedX(node, eventX, nodes, edges, width) ==
    NearSiblings(GetSiblings(node, nodes, edges),
                 RangeOrPadding(GetDescendantSampleRange("force", node, nodes, edges),
                                eventX, width))

\* Index of the node in the simulation's node list.
SimIndex(id) == CHOOSE k \in DOMAIN sim.nodes : sim.nodes[k].id = id

pipelineVars == <<received, dedup1, dedup2, mounted, canvas, layout2, trav, route>>

\* The layout effect of ForceDirectedGraph: dedup, rank, sample placement,
\* optimizeLayerPositions, then the simulation is created and started.
LayoutEffect ==
    /\ phase = "input"
    /\ mounted = "force"
    /\ layout1' = RunPipeline("force", data.nodes, data.edges, canvas)
    /\ sim' = CreateSimulation(layout1')
    /\ data' = [data EXCEPT !.nodes = SnapshotAfter(data.nodes, sim'.nodes)]
    /\ phase' = "simulating"
    /\ UNCHANGED <<pipelineVars, drag, effects>>

Tick ==
    /\ phase = "simulating"
    /\ sim.running
    /\ drag.subject # 0 => drag.ticks < MaxDragTicks
    /\ sim' \in StepOf(sim, AlphaStep(sim.alpha, sim.alphaTarget), canvas.width)
    /\ drag' = IF drag.subject # 0 THEN [drag EXCEPT !.ticks = @ + 1] ELSE drag
    /\ data' = [data EXCEPT !.nodes = SnapshotAfter(data.nodes, sim'.nodes)]
    /\ UNCHANGED <<pipelineVars, phase, layout1, effects>>

\* dragstarted: event.active is 0 for the only pointer.
DragStarted ==
    /\ phase = "simulating"
    /\ drag.subject = 0
    /\ drag.count < MaxDrags
    /\ \E id \in IdSet(sim.nodes) :
         /\ sim' = [sim EXCEPT !.alphaTarget = DragAlphaTarget, !.running = TRUE,
                               !.nodes[SimIndex(id)].fx = sim.nodes[SimIndex(id)].x]
         /\ drag' = [subject |-> id, count |-> drag.count + 1, ticks |-> 0]
    /\ data' = [data EXCEPT !.nodes = SnapshotAfter(data.nodes, sim'.nodes)]
    /\ UNCHANGED <<pipelineVars, phase, layout1, effects>>

Dragged ==
    /\ phase = "simulating"
    /\ drag.subject # 0
    /\ \E eventX \in EventXs :
         sim' = [sim EXCEPT !.nodes[SimIndex(drag.subject)].fx =
                   Some(DraggedX(sim.nodes[SimIndex(drag.subject)], eventX,
                                 sim.nodes, sim.edges, canvas.width))]
    /\ data' = [data EXCEPT !.nodes = SnapshotAfter(data.nodes, sim'.nodes)]
    /\ UNCHANGED <<pipelineVars, phase, layout1, drag, effects>>

\* dragended: the subject is released and its x clamped.
DragEnded ==
    /\ phase = "simulating"
    /\ drag.subject # 0
    /\ sim' = [sim EXCEPT
                 !.alphaTarget = 0,
                 !.nodes[SimIndex(drag.subject)].fx = None,
                 !.nodes[SimIndex(drag.subject)].x =
                    Some(RangeOrPadding(
                           GetDescendantSampleRange("force", sim.nodes[SimIndex(drag.subject)],
                                                    sim.nodes, sim.edges),
                           XOr0(sim.nodes[SimIndex(drag.subject)]), canvas.width))]
    /\ drag' = [drag EXCEPT !.subject = 0]
    /\ data' = [data EXCEPT !.nodes = SnapshotAfter(data.nodes, sim'.nodes)]
    /\ UNCHANGED <<pipelineVars, phase, layout1, effects>>

\* Snapshots relaxed: edges lead from the smaller to the larger time, and
\* every non-sample node has a child.
InitRelax ==
    /\ InitLayoutOf(RelaxIds, {"force"})
    /\ \A k \in DOMAIN data.nodes :
         data.nodes[k].is_sample \/
         \E e \in DOMAIN data.edges :
           /\ data.edges[e].source = data.nodes[k].id
           /\ FindNode(data.nodes, data.edges[e].target) # None
           /\ Val(FindNode(data.nodes, data.edges[e].target)).time > data.nodes[k].time

NextRelax == LayoutEffect \/ Tick \/ DragStarted \/ Dragged \/ DragEnded

SpecRelax == InitRelax /\ [][NextRelax]_vars

(***************************************************************************)
(* Life cycle of the layout effect of ForceDirectedGraph                   *)
(*                                                                         *)
(* React runs the cleanup of the previous effect run and then the effect   *)
(* body in one synchronous pass, so no timer step and no pointer event     *)
(* comes in between.  What the body lays out is what LayoutEffect models;  *)
(* here a simulation is its timer state only, and its alpha is not kept:   *)
(* a running simulation with alphaTarget 0 halts after some step, one with *)
(* alphaTarget 0.3 never gets below alphaMin.  The container renders the   *)
(* component only once a graph is loaded, so stableData is never null      *)
(* while the component is mounted.                                         *)
(***************************************************************************)
\* Bounds: runs of the effect body, and graph snapshots handed to the
\* component.
MaxEffectRuns == 3
NumGraphs == 2

GraphIds == 1..NumGraphs

\* The simulation the cleanup was returned for keeps running.
KeepSimulation(s) == s

\* simulation.stop()
StopSimulation(s) == [s EXCEPT !.running = FALSE]

\* return () => { simulation.stop(); tooltip.remove(); } of the last run
Cleanup(e) ==
    IF e.simulations = <<>> THEN e
    ELSE [e EXCEPT !.simulations[Len(e.simulations)] = StopSimulation(@)]

\* selectAll("*").remove(), d3.forceSimulation(combinedNodes).alpha(0.8),
\* and the circles with their drag handlers.
\* The simulation works on the node objects of the snapshot it was given
\* (newNodes.push(node1)).
EffectBody(e, graph) ==
    [e EXCEPT !.runs = @ + 1,
              !.simulations = Append(@, [running |-> TRUE, alphaTarget |-> 0,
                                         graph |-> graph]),
              !.dom = Len(e.simulations) + 1]

effectVars ==
    <<data, received, phase, dedup1, dedup2, mounted, canvas, layout1, layout2, sim, drag,
      trav, route>>

\* The component is mounted with a loaded graph.
MountEffect ==
    /\ ~effects.mounted
    /\ effects.runs < MaxEffectRuns
    /\ \E graph \in GraphIds :
         effects' = EffectBody([effects EXCEPT !.mounted = TRUE], graph)
    /\ UNCHANGED effectVars

\* A dependency of the effect has changed: a new graph, or a new size,
\* callback or focal node with the graph it had.
RerunEffect ==
    /\ effects.mounted
    /\ effects.runs < MaxEffectRuns
    /\ \E graph \in GraphIds :
         effects' = EffectBody(Cleanup(effects), graph)
    /\ UNCHANGED effectVars

\* The container shows its loading or error view: the svg goes away.
UnmountEffect ==
    /\ effects.mounted
    /\ effects' = [Cleanup(effects) EXCEPT !.mounted = FALSE, !.dom = 0]
    /\ UNCHANGED effectVars

\* The step of the d3 timer after which alpha < alphaMin: the timer stops.
SimulationHalts ==
    /\ \E i \in DOMAIN effects.simulations :
         /\ effects.simulations[i].running
         /\ effects.simulations[i].alphaTarget = 0
         /\ effects' = [effects EXCEPT !.simulations[i].running = FALSE]
    /\ UNCHANGED effectVars

\* dragstarted on a circle in the document: the handler closes over the
\* simulation of the effect run that drew the circle.
GestureStarted ==
    /\ effects.dom # 0
    /\ effects.gesture = 0
    /\ effects' = [effects EXCEPT
                     !.simulations[effects.dom].running = TRUE,
                     !.simulations[effects.dom].alphaTarget = DragAlphaTarget,
                     !.gesture = effects.dom]
    /\ UNCHANGED effectVars

\* dragended: d3-drag listens on the window, so the gesture ends also when
\* its circle has been removed.
GestureEnded ==
    /\ effects.gesture # 0
    /\ effects' = [effects EXCEPT !.simulations[effects.gesture].alphaTarget = 0,
                                  !.gesture = 0]
    /\ UNCHANGED effectVars

InitEffects ==
    /\ data = [nodes |-> <<>>, edges |-> <<>>]
    /\ received = data
    /\ phase = "input"
    /\ dedup1 = [v \in Variants |-> NoResult]
    /\ dedup2 = [v \in Variants |-> NoResult]
    /\ mounted = "force"
    /\ canvas \in Canvases
    /\ layout1 = NoLayout
    /\ layout2 = NoLayout
    /\ sim = NoSimulation
    /\ drag = NoDrag
    /\ effects = NoEffects
    /\ trav = NoTraversal
    /\ route = NoRoute

NextEffects ==
    \/ MountEffect
    \/ RerunEffect
    \/ UnmountEffect
    \/ SimulationHalts
    \/ GestureStarted
    \/ GestureEnded

SpecEffects == InitEffects /\ [][NextEffects]_vars

(***************************************************************************)
(* Snapshots with an edge to a node that is not in the node list           *)
(***************************************************************************)
\* Bounds of the snapshots with a dangling edge.
NumDanglingNodes == 3
MaxDanglingEdges == 2

DanglingIds == 1..NumDanglingNodes

\* An id no node of the snapshot has.
UnknownId == NumDanglingNodes + 1

\* Edges with one end at the unknown id.
DanglingEdges(ids) ==
    { MkEdge(s, UnknownId, iv) : s \in ids, iv \in OneInterval } \cup
    { MkEdge(UnknownId, t, iv) : t \in ids, iv \in OneInterval }

\* Does an edge of the snapshot name a node the snapshot does not have?
HasDanglingEdge(snapshot) ==
    \E k \in DOMAIN snapshot.edges :
      \/ snapshot.edges[k].source \notin IdSet(snapshot.nodes)
      \/ snapshot.edges[k].target \notin IdSet(snapshot.nodes)

InitDangling ==
    /\ \E orient \in Orientations :
       \E kinds \in [DanglingIds -> LayoutKinds(orient)] :
         \E es \in SubsetsUpTo(CandidateEdges(DanglingIds, kinds, orient, OneInterval)
                                 \cup DanglingEdges(DanglingIds), MaxDanglingEdges) :
           data = [ nodes |-> [i \in DanglingIds |-> MkNode(i, kinds[i], "none")],
                    edges |-> SetToSeq(es) ]
    /\ HasDanglingEdge(data)
    /\ received = data
    /\ phase = "input"
    /\ dedup1 = [v \in Variants |-> NoResult]
    /\ dedup2 = [v \in Variants |-> NoResult]
    /\ mounted \in Renderers
    /\ canvas \in Canvases
    /\ layout1 = NoLayout
    /\ layout2 = NoLayout
    /\ sim = NoSimulation
    /\ drag = NoDrag
    /\ effects = NoEffects
    /\ trav = NoTraversal
    /\ route = NoRoute

SpecDangling == InitDangling /\ [][NextLayout]_vars

(***************************************************************************)
(* Ancestry traversals, one loop iteration per step                        *)
(*                                                                         *)
(* getDescendantSamples of the force-directed renderer, getDescendants and *)
(* getAncestors of its container, findDescendants of the static renderer.  *)
(* The graphs traversed may hold cycles and self-loops.                    *)
(***************************************************************************)
\* Bounds of the graphs traversed.
NumTravNodes == 3
MaxTravEdges == 2

TravIds == 1..NumTravNodes

TraversalKinds == {"getDescendantSamples", "getDescendants", "getAncestors", "findDescendants"}

\* Every directed edge over the ids, self-loops included.
DirectedEdges(ids) == { MkEdge(s, t, iv) : s \in ids, t \in ids, iv \in OneInterval }

\* A node of the traversed graph: node i has time i and timeIndex i - 1.
TravNode(i, samples) ==
    [MkNode(i, [time |-> i, is_sample |-> i \in samples], "none")
       EXCEPT !.timeIndex = Some(i - 1)]

\* const queue = [node]: the state before the first iteration.
StartTraversal(kind, nodes, edges, start) ==
    [ kind |-> kind, nodes |-> nodes, edges |-> edges, start |-> start,
      queue |-> <<start>>, visited |-> {}, descendants |-> {},
      expanded |-> [i \in IdSet(nodes) |-> 0] ]

\* queue.shift() of a node that was visited before: continue.
Skipped(t) == [t EXCEPT !.queue = Tail(@)]

\* The ids in `targets` that are samples, and the others in list order.
SampleTargets(t, targets) ==
    { targets[k] : k \in { j \in DOMAIN targets : Val(FindNode(t.nodes, targets[j])).is_sample } }

QueuedTargets(t, targets, visited) ==
    SelectSeq(targets, LAMBDA id : /\ ~Val(FindNode(t.nodes, id)).is_sample
                                   /\ id \notin visited)

\* Mutation of OutgoingTargets: the targets of all outgoing edges of `current`.
AllTargets(t, current) ==
    LET out == SelectSeq(t.edges, LAMBDA e :
                 e.source = current /\ IsDefined(FindNode(t.nodes, e.target)))
    IN [k \in DOMAIN out |-> out[k].target]

\* Targets of the outgoing edges of `current` that lead to a larger timeIndex.
OutgoingTargets(t, current) ==
    LET out == SelectSeq(t.edges, LAMBDA e :
                 /\ e.source = current
                 /\ IsDefined(FindNode(t.nodes, e.target))
                 /\ Val(Val(FindNode(t.nodes, e.target)).timeIndex) >
                      Val(Val(FindNode(t.nodes, current)).timeIndex))
    IN [k \in DOMAIN out |-> out[k].target]

Expanded(t, current, found, pushed) ==
    [t EXCEPT !.queue = Tail(@) \o pushed,
              !.visited = @ \cup {current},
              !.descendants = @ \cup found,
              !.expanded[current] = @ + 1]

\* One iteration of the while loop of getDescendantSamples.
SamplesIteration(t, current, targets) ==
    Expanded(t, current, SampleTargets(t, targets),
             QueuedTargets(t, targets, t.visited \cup {current}))

\* Far ends of the edges that start (getDescendants) or end (getAncestors)
\* at `current` and are not visited, in edge order.
UnvisitedChildren(t, current, visited) ==
    LET out == SelectSeq(t.edges, LAMBDA e : e.source = current /\ e.target \notin visited)
    IN [k \in DOMAIN out |-> out[k].target]

UnvisitedParents(t, current, visited) ==
    LET in == SelectSeq(t.edges, LAMBDA e : e.target = current /\ e.source \notin visited)
    IN [k \in DOMAIN in |-> in[k].source]

\* One iteration of the while loop of getDescendants / getAncestors.
ClosureIteration(t, current, next) ==
    Expanded(t, current, { next[k] : k \in DOMAIN next }, next)

\* for (const child of children): a child not yet in descendants is added
\* and queued.
RECURSIVE NewChildren(_, _)
NewChildren(children, descendants) ==
    IF children = <<>> THEN <<>>
    ELSE IF Head(children) \in descendants
         THEN NewChildren(Tail(children), descendants)
         ELSE <<Head(children)>> \o NewChildren(Tail(children), descendants \cup {Head(children)})

LinkTargets(t, current) ==
    LET out == SelectSeq(t.edges, LAMBDA e : e.source = current)
    IN [k \in DOMAIN out |-> out[k].target]

\* One iteration of the while loop of findDescendants: it has no visited
\* set, the set of descendants found is its only guard.
FindIteration(t, current, new) ==
    [t EXCEPT !.queue = Tail(@) \o new,
              !.descendants = @ \cup { new[k] : k \in DOMAIN new },
              !.expanded[current] = @ + 1]

travVars ==
    <<data, received, phase, dedup1, dedup2, mounted, canvas, layout1, layout2,
      sim, drag, effects, route>>

GetDescendantSamplesStep ==
    /\ trav.kind = "getDescendantSamples"
    /\ trav.queue # <<>>
    /\ trav' = IF Head(trav.queue) \in trav.visited THEN Skipped(trav)
               ELSE SamplesIteration(trav, Head(trav.queue),
                                     OutgoingTargets(trav, Head(trav.queue)))
    /\ UNCHANGED travVars

GetDescendantsStep ==
    /\ trav.kind = "getDescendants"
    /\ trav.queue # <<>>
    /\ trav' = IF Head(trav.queue) \in trav.visited THEN Skipped(trav)
               ELSE ClosureIteration(trav, Head(trav.queue),
                      UnvisitedChildren(trav, Head(trav.queue),
                                        trav.visited \cup {Head(trav.queue)}))
    /\ UNCHANGED travVars

GetAncestorsStep ==
    /\ trav.kind = "getAncestors"
    /\ trav.queue # <<>>
    /\ trav' = IF Head(trav.queue) \in trav.visited THEN Skipped(trav)
               ELSE ClosureIteration(trav, Head(trav.queue),
                      UnvisitedParents(trav, Head(trav.queue),
                                       trav.visited \cup {Head(trav.queue)}))
    /\ UNCHANGED travVars

FindDescendantsStep ==
    /\ trav.kind = "findDescendants"
    /\ trav.queue # <<>>
    /\ trav' = FindIteration(trav, Head(trav.queue),
                 NewChildren(LinkTargets(trav, Head(trav.queue)), trav.descendants))
    /\ UNCHANGED travVars

\* Nothing is laid out and nothing is mounted.
PipelineIdle ==
    /\ data = [nodes |-> <<>>, edges |-> <<>>]
    /\ received = data
    /\ phase = "input"
    /\ dedup1 = [v \in Variants |-> NoResult]
    /\ dedup2 = [v \in Variants |-> NoResult]
    /\ mounted = "force"
    /\ canvas \in Canvases
    /\ layout1 = NoLayout
    /\ layout2 = NoLayout
    /\ sim = NoSimulation
    /\ drag = NoDrag
    /\ effects = NoEffects

InitTraversal ==
    /\ PipelineIdle
    /\ route = NoRoute
    /\ \E kind \in TraversalKinds :
       \E samples \in (IF kind = "getDescendantSamples" THEN SUBSET TravIds ELSE {{}}) :
       \E es \in SubsetsUpTo(DirectedEdges(TravIds), MaxTravEdges) :
       \E start \in TravIds :
         trav = StartTraversal(kind, [i \in TravIds |-> TravNode(i, samples)],
                               SetToSeq(es), start)

NextTraversal ==
    \/ GetDescendantSamplesStep
    \/ GetDescendantsStep
    \/ GetAncestorsStep
    \/ FindDescendantsStep

SpecTraversal == InitTraversal /\ [][NextTraversal]_vars

(***************************************************************************)
(* Scenario A: five samples at time 0, two nodes at time 1 that parent two *)
(* samples each, and a root at time 2 that parents both.  Ids are those of *)
(* the scenario plus one: samples 1..5, inner nodes 6 and 7, root 8.  An   *)
(* edge leads from the parent to the child.                                *)
(***************************************************************************)
ScenarioSamples == 1..5
ScenarioInner == {6, 7}
ScenarioRoot == SetMax(ScenarioInner) + 1

ScenarioKind(i) ==
    IF i \in ScenarioSamples THEN [time |-> 0, is_sample |-> TRUE]
    ELSE IF i \in ScenarioInner THEN [time |-> 1, is_sample |-> FALSE]
    ELSE [time |-> 2, is_sample |-> FALSE]

\* The edges of the scenario when node 6 parents the samples in `a` and
\* node 7 those in `b`.
ScenarioEdges(a, b) ==
    { MkEdge(6, t, iv) : t \in a, iv \in OneInterval } \cup
    { MkEdge(7, t, iv) : t \in b, iv \in OneInterval } \cup
    { MkEdge(ScenarioRoot, t, iv) : t \in ScenarioInner, iv \in OneInterval }

InitScenarioA ==
    /\ \E a \in SUBSET ScenarioSamples :
       \E b \in SUBSET ScenarioSamples :
         /\ Cardinality(a) = 2
         /\ Cardinality(b) = 2
         /\ a \cap b = {}
         /\ data = [ nodes |-> [i \in 1..ScenarioRoot |-> MkNode(i, ScenarioKind(i), "none")],
                     edges |-> SetToSeq(ScenarioEdges(a, b)) ]
    /\ received = data
    /\ phase = "input"
    /\ dedup1 = [v \in Variants |-> NoResult]
    /\ dedup2 = [v \in Variants |-> NoResult]
    /\ mounted \in Renderers
    /\ canvas \in Canvases
    /\ layout1 = NoLayout
    /\ layout2 = NoLayout
    /\ sim = NoSimulation
    /\ drag = NoDrag
    /\ effects = NoEffects
    /\ trav = NoTraversal
    /\ route = NoRoute

SpecScenarioA == InitScenarioA /\ [][NextLayout]_vars

(***************************************************************************)
(* Orthogonal edge router of the static renderer                           *)
(* (PrettyArgVisualization.tsx, calculateOptimalPathWithCrossingMin).      *)
(* Positions are whole pixels.  A path string "M x,y L x,y ..." is the     *)
(* sequence of its commands.                                               *)
(***************************************************************************)
NumRouteNodes == 3
MaxRouteLinks == 3

RouteIds == 1..NumRouteNodes

\* x positions a node can have (equal, closer than the alignment threshold,
\* and farther apart) and the y positions of the ranks.
RouteXs == { 0, 3, 10 }
RouteYs == { 0, 10 }

\* The edgeType prop.
EdgeTypes == { "line", "ortho" }

\* if (Math.abs(dx) < 5) / if (Math.abs(dy) < 5)
AlignThreshold == 5

Abs(v) == IF v < 0 THEN 0 - v ELSE v

\* One command of a path string: `M${x},${y}` or `L${x},${y}`.
PathCommand(c, x, y) == [cmd |-> c, x |-> x, y |-> y]

\* `M${x1},${y1} L${x2},${y2}`
LinePath(x1, y1, x2, y2) == << PathCommand("M", x1, y1), PathCommand("L", x2, y2) >>

\* pathOption1: horizontal first.
PathOption1(x1, y1, x2, y2) ==
    << PathCommand("M", x1, y1), PathCommand("L", x2, y1), PathCommand("L", x2, y2) >>

\* pathOption2: vertical first.
PathOption2(x1, y1, x2, y2) ==
    << PathCommand("M", x1, y1), PathCommand("L", x1, y2), PathCommand("L", x2, y2) >>

\* parsePathToPoints: one point per M or L command of the string.
ParsePathToPoints(path) ==
    [k \in DOMAIN path |-> [x |-> path[k].x, y |-> path[k].y]]

SegmentMeetsLine(seg1, seg2) ==
    LET p1 == seg1.start
        p2 == seg1.end
        p3 == seg2.start
        p4 == seg2.end
        det == (p2.x - p1.x) * (p4.y - p3.y) - (p4.x - p3.x) * (p2.y - p1.y)
        un == (p4.x - p3.x) * (p1.y - p3.y) - (p4.y - p3.y) * (p1.x - p3.x)
    IN IF det = 0 THEN FALSE
       ELSE IF det > 0 THEN 0 <= un /\ un <= det ELSE det <= un /\ un <= 0

\* segmentsIntersect: det = 0 is "parallel"; otherwise both parameters u and
\* v (quotients by det) have to lie in [0, 1].
SegmentsIntersect(seg1, seg2) ==
    LET p1 == seg1.start
        p2 == seg1.end
        p3 == seg2.start
        p4 == seg2.end
        det == (p2.x - p1.x) * (p4.y - p3.y) - (p4.x - p3.x) * (p2.y - p1.y)
        un == (p4.x - p3.x) * (p1.y - p3.y) - (p4.y - p3.y) * (p1.x - p3.x)
        vn == (p2.x - p1.x) * (p1.y - p3.y) - (p2.y - p1.y) * (p1.x - p3.x)
        InUnit(num) == IF det > 0 THEN 0 <= num /\ num <= det
                       ELSE det <= num /\ num <= 0
    IN IF det = 0 THEN FALSE ELSE InUnit(un) /\ InUnit(vn)

\* The segments of a list of points.
SegmentsOf(points) ==
    [k \in 1..(Len(points) - 1) |-> [start |-> points[k], end |-> points[k + 1]]]

\* allLinks.filter(l => l.id !== link.id)
OtherLinks(link, allLinks) == SelectSeq(allLinks, LAMBDA l : l.id # link.id)

\* allLinks.filter(l => l.target === targetNode.id).length
TargetParentCount(targetId, allLinks) ==
    Cardinality({ k \in DOMAIN allLinks : allLinks[k].target = targetId })

\* allLinks.filter(l => l.source === sourceNode.id).length
SourceChildCount(sourceId, allLinks) ==
    Cardinality({ k \in DOMAIN allLinks : allLinks[k].source = sourceId })

RECURSIVE CalculateOptimalPathWithCrossingMin(_, _, _, _)
RECURSIVE CalculatePathCrossings(_, _, _, _)

\* calculatePathCrossings: every other link is routed with an EMPTY link list
\* and each pair of crossing segments counts once.
CalculatePathCrossings(pathPoints, otherLinks, nodeMap, edgeType) ==
    LET segs == SegmentsOf(pathPoints)
        OtherSegs(k) ==
            IF otherLinks[k].source \notin DOMAIN nodeMap
               \/ otherLinks[k].target \notin DOMAIN nodeMap
            THEN <<>>
            ELSE SegmentsOf(ParsePathToPoints(
                   CalculateOptimalPathWithCrossingMin(otherLinks[k], <<>>, nodeMap, edgeType)))
    IN Cardinality({ c \in (DOMAIN segs) \X (DOMAIN otherLinks) \X (1..2) :
                       /\ c[3] \in DOMAIN OtherSegs(c[2])
                       /\ SegmentsIntersect(segs[c[1]], OtherSegs(c[2])[c[3]]) })

ByDirection(x1, y1, x2, y2, option1Crossings, option2Crossings) ==
    IF y2 < y1 THEN PathOption1(x1, y1, x2, y2) ELSE PathOption2(x1, y1, x2, y2)

\* The choice between the two bends once no special rule applies.
ByCrossings(x1, y1, x2, y2, option1Crossings, option2Crossings) ==
    IF option1Crossings < option2Crossings THEN PathOption1(x1, y1, x2, y2)
    ELSE IF option2Crossings < option1Crossings THEN PathOption2(x1, y1, x2, y2)
    ELSE IF y2 < y1 THEN PathOption1(x1, y1, x2, y2)
    ELSE PathOption2(x1, y1, x2, y2)

\* calculateOptimalPathWithCrossingMin; '' is the empty sequence.
CalculateOptimalPathWithCrossingMin(link, allLinks, nodeMap, edgeType) ==
    IF link.source \notin DOMAIN nodeMap \/ link.target \notin DOMAIN nodeMap THEN <<>>
    ELSE
      LET sourceNode == nodeMap[link.source]
          targetNode == nodeMap[link.target]
          x1 == sourceNode.x
          y1 == sourceNode.y
          x2 == targetNode.x
          y2 == targetNode.y
      IN IF edgeType = "line" THEN LinePath(x1, y1, x2, y2)
         ELSE IF Abs(x2 - x1) < AlignThreshold THEN PathOption2(x1, y1, x2, y2)
         ELSE IF Abs(y2 - y1) < AlignThreshold THEN PathOption1(x1, y1, x2, y2)
         ELSE IF targetNode.ts_flags % 2 = 1
                 \/ TargetParentCount(targetNode.id, allLinks) = 1
              THEN PathOption1(x1, y1, x2, y2)
         ELSE IF SourceChildCount(sourceNode.id, allLinks) = 1
              THEN PathOption1(x1, y1, x2, y2)
         ELSE ByCrossings(x1, y1, x2, y2,
                CalculatePathCrossings(ParsePathToPoints(PathOption1(x1, y1, x2, y2)),
                                       OtherLinks(link, allLinks), nodeMap, edgeType),
                CalculatePathCrossings(ParsePathToPoints(PathOption2(x1, y1, x2, y2)),
                                       OtherLinks(link, allLinks), nodeMap, edgeType))

\* link.attr("d", d => calculateOptimalPathWithCrossingMin(d, links, nodeMap))
RoutedPaths(links, nodeMap, edgeType) ==
    [k \in DOMAIN links |->
       CalculateOptimalPathWithCrossingMin(links[k], links, nodeMap, edgeType)]

\* The links of the drawn graph: distinct node pairs, link k has id k.
RouteLinks(pairs) ==
    LET es == SetToSeq({ MkEdge(p[1], p[2], [left |-> 0, right |-> 0]) : p \in pairs })
    IN [k \in DOMAIN es |-> [id |-> k, source |-> es[k].source, target |-> es[k].target]]

\* A positioned node of the static renderer.
RouteNode(id, x, y, flags) == [id |-> id, x |-> x, y |-> y, ts_flags |-> flags]

\* The links are appended to the drawing: every link gets its path.
DrawLinks ==
    /\ route.called = FALSE
    /\ route.links # <<>>
    /\ route' = [route EXCEPT !.called = TRUE,
                              !.paths = RoutedPaths(route.links, route.nodes, route.edgeType)]
    /\ UNCHANGED <<data, received, phase, dedup1, dedup2, mounted, canvas, layout1, layout2,
                   sim, drag, effects, trav>>

InitRouter ==
    /\ PipelineIdle
    /\ trav = NoTraversal
    /\ \E edgeType \in EdgeTypes :
       \E xs \in [RouteIds -> RouteXs] :
       \E ys \in [RouteIds -> RouteYs] :
       \E samples \in SUBSET (RouteIds \ {1}) :
       \E pairs \in SubsetsUpTo({ p \in RouteIds \X RouteIds : p[1] < p[2] }, MaxRouteLinks) \ {{}} :
         route = [called |-> FALSE,
                  edgeType |-> edgeType,
                  nodes |-> [i \in RouteIds |->
                               RouteNode(i, xs[i], ys[i], IF i \in samples THEN 1 ELSE 0)],
                  links |-> RouteLinks(pairs),
                  paths |-> <<>>]

NextRouter == DrawLinks

SpecRouter == InitRouter /\ [][NextRouter]_vars

(***************************************************************************)
(* Static renderer (PrettyArgVisualization.tsx): ranks and vertical        *)
(* positions of the nodes it draws.  Lengths in units of 0.01 px.          *)
(***************************************************************************)
\* const height = Math.max(600, data.height)
MinStaticHeight == 60000

\* const width = Math.max(800, ...)
MinStaticWidth == 80000

\* .range([height - 50, 50])
RankPadding == 5000

\* d3.scaleLinear().domain([0, maxRank]).range([height - 50, 50]); a domain
\* of one point maps to the middle of the range.
YScale(rank, maxRank, height) ==
    IF maxRank = 0 THEN height \div 2
    ELSE (height - RankPadding) - (rank * (height - 2 * RankPadding)) \div maxRank

\* A node of the static renderer's input.
StaticInput(node) ==
    [ id |-> node.id, time |-> node.time,
      ts_flags |-> IF node.is_sample THEN 1 ELSE 0,
      rank |-> None, x |-> None, y |-> None ]

\* initialNodes: x: node.x || width / 2, y: yScale(rank).
InitialNodes(nodes, width, height) ==
    [ k \in DOMAIN nodes |->
        LET rank == TimeToIndex(nodes, nodes[k].time)
        IN [ nodes[k] EXCEPT
               !.rank = Some(rank),
               !.x = IF IsDefined(nodes[k].x) /\ Val(nodes[k].x) # 0
                     THEN nodes[k].x ELSE Some(width \div 2),
               !.y = Some(YScale(rank, Len(UniqueTimes(nodes)) - 1, height)) ] ]

\* The static renderer computes the ranks and the initial positions of the
\* snapshot's nodes.
PositionInitialNodes ==
    /\ phase = "input"
    /\ mounted = "static"
    /\ route' = [ called |-> TRUE,
                  nodes |-> InitialNodes([k \in DOMAIN data.nodes |-> StaticInput(data.nodes[k])],
                                         Max(MinStaticWidth, canvas.width),
                                         Max(MinStaticHeight, canvas.height)) ]
    /\ phase' = "laidout"
    /\ UNCHANGED <<data, received, dedup1, dedup2, mounted, canvas, layout1, layout2,
                   sim, drag, effects, trav>>

\* Ranking in the force-directed and in the static renderer.
InitRanks == InitLayoutOf(LayoutIds, {"force", "static"})

NextRanks == RunLayout \/ PositionInitialNodes

SpecRanks == InitRanks /\ [][NextRanks]_vars

(***************************************************************************)
(* Parent queries (getParent) on a ranked graph, asked more than once.     *)
(***************************************************************************)
MaxParentQueries == 2

\* Ranks the nodes of the queried graph may have.
ParentRanks == { 0, 1 }

\* A node of the queried graph after the rank assignment of its renderer.
RankedNode(i, rank) ==
    [MkNode(i, [time |-> rank, is_sample |-> FALSE], "none")
       EXCEPT !.timeIndex = Some(rank), !.layer = Some(rank)]

\* The edge list in the given order of its entries.
InOrder(order, edges) ==
    IF order = "ascending" THEN edges
    ELSE [k \in DOMAIN edges |-> edges[Len(edges) + 1 - k]]

\* One call of getParent(node, nodes, edges).
GetParentQuery ==
    /\ trav.kind = "getParent"
    /\ Len(trav.parents) < MaxParentQueries
    /\ trav' = [trav EXCEPT !.parents =
                  Append(@, GetParent(trav.renderer, trav.nodes[trav.start],
                                      trav.nodes, trav.edges))]
    /\ UNCHANGED travVars

InitParent ==
    /\ PipelineIdle
    /\ route = NoRoute
    /\ \E renderer \in Renderers :
       \E ranks \in [TravIds -> ParentRanks] :
       \E es \in SubsetsUpTo(DirectedEdges(TravIds), MaxTravEdges) :
       \E order \in NodeOrders :
       \E start \in TravIds :
         trav = [ kind |-> "getParent", renderer |-> renderer,
                  nodes |-> [i \in TravIds |-> RankedNode(i, ranks[i])],
                  edges |-> InOrder(order, SetToSeq(es)),
                  start |-> start, parents |-> <<>> ]

NextParent == GetParentQuery

SpecParent == InitParent /\ [][NextParent]_vars

(***************************************************************************)
(* Drag gestures on a laid-out graph with siblings: the layout effect and  *)
(* the three drag handlers of the force-directed renderer, with no timer   *)
(* tick between the pointer events.                                        *)
(***************************************************************************)
NumDragNodes == 4
MaxDragEdges == 3

DragIds == 1..NumDragNodes

\* Snapshots dragged: edges lead from the smaller to the larger time, the
\* samples have the largest time, and every non-sample node has a child.
InitDrag ==
    /\ \E kinds \in [DragIds -> LayoutKinds("younger_to_older")] :
         \E es \in SubsetsUpTo(CandidateEdges(DragIds, kinds, "younger_to_older", OneInterval),
                                MaxDragEdges) :
           data = [ nodes |-> [i \in DragIds |-> MkNode(i, kinds[i], "none")],
                    edges |-> SetToSeq(es) ]
    /\ \A k \in DOMAIN data.nodes :
         data.nodes[k].is_sample \/
         \E e \in DOMAIN data.edges : data.edges[e].source = data.nodes[k].id
    /\ received = data
    /\ phase = "input"
    /\ dedup1 = [v \in Variants |-> NoResult]
    /\ dedup2 = [v \in Variants |-> NoResult]
    /\ mounted = "force"
    /\ canvas \in Canvases
    /\ layout1 = NoLayout
    /\ layout2 = NoLayout
    /\ sim = NoSimulation
    /\ drag = NoDrag
    /\ effects = NoEffects
    /\ trav = NoTraversal
    /\ route = NoRoute

NextDrag == LayoutEffect \/ DragStarted \/ Dragged \/ DragEnded

SpecDrag == InitDrag /\ [][NextDrag]_vars

(***************************************************************************)
(* The relaxation loop under its scheduling: d3's timer calls the step     *)
(* again and again for as long as the simulation runs, so a tick that      *)
(* stays possible is eventually taken.  Pointer events are up to the user. *)
(* The condition is weak fairness of Tick, WF_vars(Tick), written out as   *)
(* "infinitely often disabled or infinitely often taken" with the guard    *)
(* of Tick and with the changes only Tick makes.                           *)
(***************************************************************************)
\* The guard of Tick: the timer is running.
TickEnabled ==
    /\ phase = "simulating"
    /\ sim.running
    /\ drag.subject # 0 => drag.ticks < MaxDragTicks

\* The steps of Tick: while no gesture is in progress only the timer
\* changes the simulation; during a gesture its ticks are counted.
TickTaken ==
    /\ phase = "simulating"
    /\ phase' = "simulating"
    /\ drag'.subject = drag.subject
    /\ drag'.count = drag.count
    /\ IF drag.subject = 0 THEN sim' # sim ELSE drag'.ticks # drag.ticks

FairTicks == []<>(~TickEnabled) \/ []<><<TickTaken>>_vars

SpecRelaxFair == InitRelax /\ [][NextRelax]_vars /\ FairTicks

(***************************************************************************)
(* The data prop of ForceDirectedGraph                                     *)
(*                                                                         *)
(* The container hands the component getFilteredData(): the loaded graph,  *)
(* or the subgraph below / the ancestors above the selected node.  A click *)
(* on a drawn node changes the view; the container renders again, and the  *)
(* component computes dataKey and stableData and runs its layout effect on *)
(* stableData.  A graph is kept as its node ids and its edges; `ref` tells *)
(* object identities apart (0 is the loaded graph, a filtered view is a    *)
(* new object on every render).                                            *)
(***************************************************************************)
\* Bounds: nodes of the loaded graph, and clicks of one session.
NumViewNodes == 3
MaxClicks == 3

ViewIds == 1..NumViewNodes

ViewModes == { "full", "subgraph", "ancestors" }

\* Metadata of a loaded graph: unfiltered, or filtered to a genomic window.
Metadatas ==
    { [genomic_start |-> None, genomic_end |-> None, sequence_length |-> 10],
      [genomic_start |-> Some(0), genomic_end |-> Some(5), sequence_length |-> 10],
      [genomic_start |-> Some(2), genomic_end |-> Some(5), sequence_length |-> 10] }

\* getDescendants / getAncestors: the nodes found from `frontier` along the
\* edges, forwards or backwards.
RECURSIVE FoundFrom(_, _, _, _)
FoundFrom(frontier, found, edges, forwards) ==
    LET next == { IF forwards THEN edges[k].target ELSE edges[k].source :
                    k \in { j \in DOMAIN edges :
                              IF forwards THEN edges[j].source \in frontier
                                          ELSE edges[j].target \in frontier } }
    IN IF next \subseteq found THEN found
       ELSE FoundFrom(next \ found, found \cup next, edges, forwards)

\* getFilteredData
GetFilteredData(loaded, viewMode, selectedNode, ref) ==
    IF selectedNode = 0 \/ viewMode = "full" THEN loaded
    ELSE LET kept == FoundFrom({selectedNode}, {}, loaded.edges, viewMode = "subgraph")
                       \cup {selectedNode}
         IN [ ref |-> ref,
              nodes |-> SelectSeq(loaded.nodes, LAMBDA id : id \in kept),
              edges |-> SelectSeq(loaded.edges,
                                  LAMBDA e : e.source \in kept /\ e.target \in kept),
              metadata |-> loaded.metadata ]

\* genomic_start || 0 and genomic_end || sequence_length
OrElse(field, default) == IF IsDefined(field) /\ Val(field) # 0 THEN Val(field) ELSE default

\* What the layout is computed from: the nodes and the edges.
WholeGraph(graph) == <<graph.nodes, graph.edges>>

\* `${nodes.length}-${edges.length}-${genomic_start || 0}-${genomic_end || sequence_length}`
DataKey(graph) ==
    << Len(graph.nodes), Len(graph.edges),
       OrElse(graph.metadata.genomic_start, 0),
       OrElse(graph.metadata.genomic_end, graph.metadata.sequence_length) >>

NoPrevData == [data |-> None, key |-> None]

\* stableData = useMemo(..., [data, dataKey]); the record holds the memo
\* (its dependencies and its value) and prevDataRef.current.
StableData(memo, graph, dataKey) ==
    IF memo.deps = Some(<<graph, dataKey>>) THEN memo
    ELSE IF memo.prev.key = Some(dataKey) /\ IsDefined(memo.prev.data)
    THEN [memo EXCEPT !.deps = Some(<<graph, dataKey>>), !.value = memo.prev.data]
    ELSE [ deps |-> Some(<<graph, dataKey>>),
           prev |-> [data |-> Some(graph), key |-> Some(dataKey)],
           value |-> Some(graph) ]

\* One render of the container and of the component, with the layout
\* effect that follows it: the effect lays out stableData.
Rendered(loaded, viewMode, selectedNode, memo, renders) ==
    LET graph == GetFilteredData(loaded, viewMode, selectedNode, renders + 1)
        next == StableData(memo, graph, DataKey(graph))
    IN [ mounted |-> TRUE, renders |-> renders + 1,
         viewMode |-> viewMode, selectedNode |-> selectedNode,
         prop |-> graph, memo |-> next, laidOut |-> Val(next.value) ]

\* Ids of the circles drawn by the last effect run.
DrawnIds == { effects.laidOut.nodes[k] : k \in DOMAIN effects.laidOut.nodes }

viewVars ==
    <<data, received, phase, dedup1, dedup2, mounted, canvas, layout1, layout2, sim, drag,
      trav, route>>

\* The graph has arrived: the container leaves its loading view and the
\* component is mounted.
FirstRender ==
    /\ ~effects.mounted
    /\ effects' = Rendered(received, "full", 0,
                           [deps |-> None, prev |-> NoPrevData, value |-> None], 0)
    /\ UNCHANGED viewVars

\* handleNodeClick on a drawn node
HandleNodeClick ==
    /\ effects.mounted
    /\ effects.renders <= MaxClicks
    /\ \E node \in DrawnIds :
         effects' =
           IF effects.viewMode = "full"
           THEN Rendered(received, "subgraph", node, effects.memo, effects.renders)
           ELSE IF effects.selectedNode = node
           THEN Rendered(received, "full", 0, effects.memo, effects.renders)
           ELSE Rendered(received, "subgraph", node, effects.memo, effects.renders)
    /\ UNCHANGED viewVars

\* handleNodeRightClick on a drawn node
HandleNodeRightClick ==
    /\ effects.mounted
    /\ effects.renders <= MaxClicks
    /\ \E node \in DrawnIds :
         effects' = Rendered(received, "ancestors", node, effects.memo, effects.renders)
    /\ UNCHANGED viewVars

\* handleReturnToFull: the button is shown outside the full view.
HandleReturnToFull ==
    /\ effects.mounted
    /\ effects.renders <= MaxClicks
    /\ effects.viewMode # "full"
    /\ effects' = Rendered(received, "full", 0, effects.memo, effects.renders)
    /\ UNCHANGED viewVars

\* Loaded graphs: edges lead from a parent to a child with a larger id.
InitViews ==
    /\ \E es \in SUBSET { p \in ViewIds \X ViewIds : p[1] < p[2] }, md \in Metadatas :
         received = [ ref |-> 0,
                      nodes |-> [i \in ViewIds |-> i],
                      edges |-> SetToSeq({ [source |-> p[1], target |-> p[2],
                                            left |-> 0, right |-> 10] : p \in es }),
                      metadata |-> md ]
    /\ data = received
    /\ phase = "input"
    /\ dedup1 = [v \in Variants |-> NoResult]
    /\ dedup2 = [v \in Variants |-> NoResult]
    /\ mounted = "force"
    /\ canvas \in Canvases
    /\ layout1 = NoLayout
    /\ layout2 = NoLayout
    /\ sim = NoSimulation
    /\ drag = NoDrag
    /\ effects = [mounted |-> FALSE]
    /\ trav = NoTraversal
    /\ route = NoRoute

NextViews == FirstRender \/ HandleNodeClick \/ HandleNodeRightClick \/ HandleReturnToFull

SpecViews == InitViews /\ [][NextViews]_vars

(***************************************************************************)
(* segmentsIntersect on its own: two segments between points of a grid,    *)
(* tested in both orders.                                                  *)
(***************************************************************************)
\* Bound: the grid has the coordinates 0..GridSize.
GridSize == 2

GridPoints == { [x |-> px, y |-> py] : px \in 0..GridSize, py \in 0..GridSize }

GridSegments == { [start |-> a, end |-> b] : a \in GridPoints, b \in GridPoints }

TestSegments ==
    /\ route.called = FALSE
    /\ "seg1" \in DOMAIN route
    /\ route' = [route EXCEPT !.called = TRUE,
                              !.result = SegmentsIntersect(route.seg1, route.seg2),
                              !.swapped = SegmentsIntersect(route.seg2, route.seg1)]
    /\ UNCHANGED <<data, received, phase, dedup1, dedup2, mounted, canvas, layout1, layout2,
                   sim, drag, effects, trav>>

InitSegments ==
    /\ PipelineIdle
    /\ trav = NoTraversal
    /\ \E seg1 \in GridSegments, seg2 \in GridSegments :
         route = [called |-> FALSE, seg1 |-> seg1, seg2 |-> seg2,
                  result |-> FALSE, swapped |-> FALSE]

NextSegments == TestSegments

SpecSegments == InitSegments /\ [][NextSegments]_vars

(***************************************************************************)
(* Data loading of the graph containers (ForceDirectedGraphContainer and   *)
(* DeckGLArgVisualizationContainer run the same two effects)               *)
(*                                                                         *)
(* A request is in flight from its fetch until its response is handled;    *)
(* responses come back in any order.  A graph is kept as the request that  *)
(* returned it.  Every file has the sequence length SequenceLength.  While *)
(* the container shows its loading or error view the user has no controls; *)
(* the props come from the page and change at any time.                    *)
(***************************************************************************)
\* Bound: requests issued in one session.
MaxRequests == 3

SequenceLength == 10

FullRange == <<0, SequenceLength>>

\* Genomic windows the slider is moved to.
Windows == { <<0, 5>>, <<5, 10>> }

\* filename and max_samples
ContainerProps ==
    { [filename |-> 1, max_samples |-> 25],
      [filename |-> 1, max_samples |-> 50],
      [filename |-> 2, max_samples |-> 25] }

\* useState(...) of the container before its first effect.
NewContainer(props) ==
    [ mounted |-> FALSE, props |-> props, data |-> None, error |-> FALSE, loading |-> TRUE,
      isGenomicFilterActive |-> FALSE, debouncedGenomicRange |-> <<0, 0>>,
      isInitialized |-> FALSE, pending |-> {}, issued |-> 0, answered |-> {} ]

\* setLoading(true); fetch(url): the request is in flight.
Fetch(c, kind, range) ==
    [c EXCEPT !.loading = TRUE,
              !.issued = @ + 1,
              !.pending = @ \cup { [ id |-> c.issued + 1, kind |-> kind,
                                      filename |-> c.props.filename,
                                      max_samples |-> c.props.max_samples,
                                      range |-> range ] }]

\* The effect "Data loading with genomic filtering", run with the state of
\* the render it belongs to.
FilterEffect(c) ==
    IF ~c.isInitialized THEN c
    ELSE IF (~c.isGenomicFilterActive \/ c.debouncedGenomicRange = FullRange)
            /\ IsDefined(c.data)
    THEN c
    ELSE Fetch(c, "filtered",
               IF c.isGenomicFilterActive THEN Some(c.debouncedGenomicRange) ELSE None)

\* The effect "Initial data loading" and, in the same commit, the filtering
\* effect; setIsInitialized(false) and setIsGenomicFilterActive(false) take
\* effect with the next render, whose filtering effect returns at once.
LoadEffects(c) ==
    [FilterEffect(Fetch(c, "initial", None)) EXCEPT
       !.isInitialized = FALSE, !.isGenomicFilterActive = FALSE]

\* await response.json() and what follows it, `finally` included.
Answered(c, request, ok) ==
    LET done == [c EXCEPT !.pending = @ \ {request}, !.loading = FALSE]
    IN IF ~ok THEN [done EXCEPT !.error = TRUE, !.data = None]
       ELSE IF request.kind = "initial"
       THEN FilterEffect([done EXCEPT !.debouncedGenomicRange = FullRange,
                                      !.isInitialized = TRUE,
                                      !.data = Some(request), !.error = FALSE,
                                      !.answered = @ \cup {request.id}])
       ELSE [done EXCEPT !.data = Some(request), !.error = FALSE,
                         !.answered = @ \cup {request.id}]

\* The container renders its controls: it is neither loading nor failed.
ControlsShown == effects.mounted /\ ~effects.loading /\ ~effects.error

containerVars ==
    <<data, received, phase, dedup1, dedup2, mounted, canvas, layout1, layout2, sim, drag,
      trav, route>>

MountContainer ==
    /\ ~effects.mounted
    /\ effects' = LoadEffects([effects EXCEPT !.mounted = TRUE])
    /\ UNCHANGED containerVars

\* The page passes another filename or max_samples.
ChangeProps ==
    /\ effects.mounted
    /\ effects.issued < MaxRequests
    /\ \E props \in ContainerProps \ {effects.props} :
         effects' = LoadEffects([effects EXCEPT !.props = props])
    /\ UNCHANGED containerVars

\* handleToggleGenomicFilter
ToggleGenomicFilter ==
    /\ ControlsShown
    /\ effects.issued < MaxRequests
    /\ effects' =
         IF effects.isGenomicFilterActive
         THEN FilterEffect([effects EXCEPT !.isGenomicFilterActive = FALSE])
         ELSE FilterEffect([effects EXCEPT !.isGenomicFilterActive = TRUE,
                                           !.debouncedGenomicRange = FullRange])
    /\ UNCHANGED containerVars

\* handleGenomicRangeChange, and 500 ms later setDebouncedGenomicRange
DebounceGenomicRange ==
    /\ ControlsShown
    /\ effects.isGenomicFilterActive
    /\ effects.issued < MaxRequests
    /\ \E range \in (Windows \cup {FullRange}) \ {effects.debouncedGenomicRange} :
         effects' = FilterEffect([effects EXCEPT !.debouncedGenomicRange = range])
    /\ UNCHANGED containerVars

\* A response arrives, for whichever request is in flight.
ReceiveResponse ==
    /\ effects.mounted
    /\ \E request \in effects.pending, ok \in BOOLEAN :
         effects' = Answered(effects, request, ok)
    /\ UNCHANGED containerVars

InitContainer ==
    /\ data = [nodes |-> <<>>, edges |-> <<>>]
    /\ received = data
    /\ phase = "input"
    /\ dedup1 = [v \in Variants |-> NoResult]
    /\ dedup2 = [v \in Variants |-> NoResult]
    /\ mounted \in { "force", "deckgl" }
    /\ canvas \in Canvases
    /\ layout1 = NoLayout
    /\ layout2 = NoLayout
    /\ sim = NoSimulation
    /\ drag = NoDrag
    /\ \E props \in ContainerProps : effects = NewContainer(props)
    /\ trav = NoTraversal
    /\ route = NoRoute

NextContainer ==
    \/ MountContainer
    \/ ChangeProps
    \/ ToggleGenomicFilter
    \/ DebounceGenomicRange
    \/ ReceiveResponse

SpecContainer == InitContainer /\ [][NextContainer]_vars

(***************************************************************************)
(* Properties of the Node Deduplicator                                     *)
(***************************************************************************)
Range(s) == { s[k] : k \in DOMAIN s }

SampleIds(nodes) == { nodes[k].id : k \in { j \in DOMAIN nodes : nodes[j].is_sample } }

\* Every sample of `nodes` is emitted once, as the record it was, and no
\* member list of `out` names a sample.
SamplesKept(nodes, out) ==
    /\ \A i \in DOMAIN nodes :
         nodes[i].is_sample =>
           LET hits == { k \in DOMAIN out.nodes : out.nodes[k].id = nodes[i].id }
           IN /\ Cardinality(hits) = 1
              /\ \A k \in hits : out.nodes[k] = nodes[i] /\ ~out.nodes[k].is_combined
    /\ \A k \in DOMAIN out.nodes :
         out.nodes[k].is_combined =>
           Range(out.nodes[k].combined_nodes) \cap SampleIds(nodes) = {}

\* C1: dedup never merges a sample node: in every variant each input sample
\* is in the output exactly once, under its own id and not combined, and no
\* combined node lists a sample among its members.
C1_SamplesNeverMerged ==
    /\ phase # "input" => \A v \in Variants : SamplesKept(data.nodes, dedup1[v])
    /\ phase = "rededuped" => \A v \in Variants : SamplesKept(dedup1[v].nodes, dedup2[v])

\* A merge happened next to a sample that has the time and the relationships
\* of an internal node listed before it, and the sample stayed on its own.
C1_Witness ==
    /\ phase = "deduped"
    /\ \E v \in Variants :
         /\ \E k \in DOMAIN dedup1[v].nodes : dedup1[v].nodes[k].is_combined
         /\ \E i, j \in DOMAIN data.nodes :
              /\ i < j
              /\ ~data.nodes[i].is_sample /\ data.nodes[j].is_sample
              /\ data.nodes[i].time = data.nodes[j].time
              /\ HaveIdenticalRelationships(data.nodes[i], data.nodes[j], data.edges)

\* C5: dedup is idempotent: a pass over the output of a pass merges nothing
\* more (same nodes, same member lists), multi-edges included.
C5_DedupIdempotent ==
    phase = "rededuped" => \A v \in Variants : dedup2[v].nodes = dedup1[v].nodes

\* Two entries of the edge list are the same (source, target, interval).
HasExactDuplicate(edges) ==
    \E i, j \in DOMAIN edges : i < j /\ edges[i] = edges[j]

HasSelfLoop(edges) ==
    \E i \in DOMAIN edges : edges[i].source = edges[i].target

\* C6: after dedup every output edge is an input edge rewritten through the
\* merge mapping, and the output holds no self-loop and no exact duplicate.
C6_NoSelfLoopNoDuplicate ==
    phase # "input" =>
      \A v \in Variants :
        /\ \A k \in DOMAIN dedup1[v].edges :
             \E i \in DOMAIN data.edges :
               dedup1[v].edges[k] = Remap(data.edges[i], dedup1[v].nodeMap)
        /\ ~HasSelfLoop(dedup1[v].edges)
        /\ ~HasExactDuplicate(dedup1[v].edges)

\* C7: dedup preserves recombination multi-edges: an input edge is missing
\* from the output only if its rewritten form is a self-loop or is already
\* in the output as an exact duplicate.
C7_MultiEdgesPreserved ==
    phase # "input" =>
      \A v \in Variants :
        \A i \in DOMAIN data.edges :
          LET r == Remap(data.edges[i], dedup1[v].nodeMap)
          IN r.source = r.target \/ r \in Range(dedup1[v].edges)

(***************************************************************************)
(* Properties of rank assignment and layer positioning                     *)
(***************************************************************************)
\* Every node the positioner placed lies within the x-range of its
\* descendant samples, when it has any.
PlacedWithinRange(renderer, layout) ==
    \A k \in DOMAIN layout.combinedNodes :
      LET n == layout.combinedNodes[k]
          range == GetDescendantSampleRange(renderer, n, layout.combinedNodes,
                                            layout.combinedEdges)
      IN (n.id \in layout.placed /\ ~n.is_sample /\ IsDefined(range)) =>
           /\ Val(range).min <= Val(n.x)
           /\ Val(n.x) <= Val(range).max

\* C3: right after layer positioning every placed non-sample node with a
\* non-empty descendant-sample set has x within [min, max] of those samples.
C3_PlacedWithinDescendantRange ==
    /\ phase # "input" => PlacedWithinRange(mounted, layout1)
    /\ phase = "relaidout" => PlacedWithinRange(mounted, layout2)

\* A placed node sits on the border of its descendant range while another
\* position of its group interval was the interpolated one.
C3_Witness ==
    /\ phase = "laidout"
    /\ \E k \in DOMAIN layout1.combinedNodes :
         LET n == layout1.combinedNodes[k]
             range == GetDescendantSampleRange(mounted, n, layout1.combinedNodes,
                                               layout1.combinedEdges)
         IN /\ n.id \in layout1.placed /\ ~n.is_sample /\ IsDefined(range)
            /\ Val(n.x) = Val(range).max
            /\ Val(range).max < canvas.width \div 2

\* C8: the layer of assignLayers is monotone in time whatever the order of
\* the node list: smaller time, smaller layer; equal time, equal layer.
C8_LayerMonotoneInTime ==
    phase # "input" =>
      \A i, j \in DOMAIN layout1.combinedNodes :
        LET a == layout1.combinedNodes[i]
            b == layout1.combinedNodes[j]
        IN /\ a.time < b.time => Val(a.layer) < Val(b.layer)
           /\ a.time = b.time => Val(a.layer) = Val(b.layer)

\* C9: dedup + rank + layer positioning is deterministic: a second run on
\* the same snapshot and canvas yields the same positions and edges.
C9_LayoutDeterministic ==
    phase = "relaidout" =>
      /\ layout2.positionedNodes = layout1.positionedNodes
      /\ layout2.positionedEdges = layout1.positionedEdges

\* C10: the pipeline leaves the input graph as it received it: every field
\* of every input node and edge keeps its value.
C10_InputImmutable == data = received

(***************************************************************************)
(* Properties of the relaxation loop                                       *)
(***************************************************************************)
\* The loop has halted and no node is being dragged.
AtRest ==
    /\ phase = "simulating"
    /\ ~sim.running
    /\ sim.alpha < AlphaMin
    /\ drag.subject = 0

\* C2: when the relaxation loop has come to rest, every non-sample node
\* with at least one descendant sample has x within [min, max] of the x of
\* those samples.
C2_RangeInvariantAtRest ==
    AtRest =>
      \A k \in DOMAIN sim.nodes :
        LET n == sim.nodes[k]
            range == GetDescendantSampleRange("force", n, sim.nodes, sim.edges)
        IN (~n.is_sample /\ IsDefined(range)) =>
             /\ Val(range).min <= Val(n.x)
             /\ Val(n.x) <= Val(range).max

(***************************************************************************)
(* Properties of the effect life cycle                                     *)
(***************************************************************************)
RunningSimulations ==
    { i \in DOMAIN effects.simulations : effects.simulations[i].running }

\* C4: at most one relaxation loop is running at any time; the simulation
\* of the previous effect run is stopped when a new one is created, so no
\* two running loops work on the same node set.
C4_AtMostOneSimulationRunning == Cardinality(RunningSimulations) <= 1

\* A second simulation over the same snapshot runs while the gesture that
\* restarted the first one is still going on.
C4_Witness ==
    /\ Len(effects.simulations) >= 2
    /\ effects.gesture # 0
    /\ effects.gesture < Len(effects.simulations)
    /\ effects.simulations[effects.gesture].graph =
         effects.simulations[Len(effects.simulations)].graph
    /\ effects.simulations[effects.gesture].alphaTarget = DragAlphaTarget
    /\ RunningSimulations = { Len(effects.simulations) }

(***************************************************************************)
(* Properties of the handling of malformed snapshots                       *)
(***************************************************************************)
\* C11: a snapshot with an edge that names an unknown node id is rejected
\* as a whole: none of its nodes and none of its edges is laid out.
C11_DanglingEdgeRejectsGraph ==
    (phase = "laidout" /\ HasDanglingEdge(received)) =>
      /\ layout1.positionedNodes = <<>>
      /\ layout1.positionedEdges = <<>>

(***************************************************************************)
(* Properties of the ancestry traversals                                   *)
(***************************************************************************)
\* C12: every ancestry traversal processes each node at most once, also on
\* a graph with a cycle, and so ends after at most one iteration per node.
C12_EachNodeProcessedOnce ==
    trav.kind # "none" => \A id \in DOMAIN trav.expanded : trav.expanded[id] <= 1

(***************************************************************************)
(* Properties of Scenario A                                                *)
(***************************************************************************)
\* Ids reachable from `from` along edges from source to target.
RECURSIVE Reachable(_, _)
Reachable(from, edges) ==
    LET next == from \cup { edges[k].target : k \in { j \in DOMAIN edges : edges[j].source \in from } }
    IN IF next = from THEN from ELSE Reachable(next, edges)

\* x of the samples of the layout that descend from node `id` in the snapshot.
DescendantSampleXs(id, snapshot, positioned) ==
    { XOr0(positioned[k]) :
        k \in { j \in DOMAIN positioned :
                  /\ positioned[j].is_sample
                  /\ positioned[j].id \in Reachable({id}, snapshot.edges) } }

\* C13: in Scenario A, after dedup, ranking and layer positioning every
\* ancestor (nodes 6, 7 and the root 8) has an x within [min, max] of the x
\* of the samples that descend from it.
C13_ScenarioAncestorsWithinSampleSpan ==
    phase = "laidout" =>
      \A k \in DOMAIN layout1.positionedNodes :
        LET n == layout1.positionedNodes[k]
            xs == DescendantSampleXs(n.id, received, layout1.positionedNodes)
        IN ~n.is_sample =>
             /\ IsDefined(n.x)
             /\ SetMin(xs) <= Val(n.x)
             /\ Val(n.x) <= SetMax(xs)

(***************************************************************************)
(* Properties of the edge router                                           *)
(***************************************************************************)
\* Is link k of the routed drawing an orthogonally routed link whose two
\* endpoints have the same x?
RoutedAligned(k) ==
    /\ route.edgeType = "ortho"
    /\ route.nodes[route.links[k].source].x = route.nodes[route.links[k].target].x

\* C14: for an edge whose two endpoints have the same x the orthogonal
\* router emits a path of exactly two points, the source position and the
\* target position.
C14_AlignedPathHasTwoPoints ==
    route.called =>
      \A k \in DOMAIN route.links :
        RoutedAligned(k) =>
          LET points == ParsePathToPoints(route.paths[k])
              s == route.nodes[route.links[k].source]
              t == route.nodes[route.links[k].target]
          IN /\ Len(points) = 2
             /\ points[1] = [x |-> s.x, y |-> s.y]
             /\ points[2] = [x |-> t.x, y |-> t.y]

\* The ids at the other end of the edges that touch node `id`.
Neighbours(id, edges) ==
    ({ edges[k].source : k \in { m \in DOMAIN edges : edges[m].target = id } } \cup
     { edges[k].target : k \in { m \in DOMAIN edges : edges[m].source = id } }) \ {id}

\* The number of entries of the edge list that touch node `id`.
Degree(id, edges) ==
    Cardinality({ k \in DOMAIN edges : edges[k].source = id \/ edges[k].target = id })

\* Both nodes carry a location and it is the same point.
SameLocation(n1, n2) ==
    /\ IsDefined(n1.location) /\ IsDefined(n2.location)
    /\ Val(n1.location) = Val(n2.location)

\* Same time and same neighbour ids, and the same location where the
\* variant looks at locations.
SameTimeAndNeighbours(v, n1, n2, edges) ==
    /\ n1.time = n2.time
    /\ Neighbours(n1.id, edges) = Neighbours(n2.id, edges)
    /\ v = "spatial" => SameLocation(n1, n2)

\* Two different internal nodes of the input, in input order.
InternalPairs(nodes) ==
    { p \in (DOMAIN nodes) \X (DOMAIN nodes) :
        p[1] < p[2] /\ ~nodes[p[1]].is_sample /\ ~nodes[p[2]].is_sample }

\* Did the pass map the two nodes to the same output node?
MergedBy(out, n1, n2) == out.nodeMap[n1.id] = out.nodeMap[n2.id]

\* C15: two non-sample nodes are merged by dedup if and only if they have
\* the same time and the same set of directly connected neighbour ids, edge
\* direction ignored; in the spatial variant they must in addition have the
\* same location.
C15_MergedIffSameTimeAndNeighbours ==
    phase # "input" =>
      \A v \in Variants : \A p \in InternalPairs(data.nodes) :
        MergedBy(dedup1[v], data.nodes[p[1]], data.nodes[p[2]])
          <=> SameTimeAndNeighbours(v, data.nodes[p[1]], data.nodes[p[2]], data.edges)

\* The merge test as coded: two non-sample nodes are merged if and only if
\* they have the same time, the same number of connected edge entries and
\* the same set of neighbour ids (and the same location in the spatial
\* variant).
MergedIffSameTimeDegreeAndNeighbours ==
    phase # "input" =>
      \A v \in Variants : \A p \in InternalPairs(data.nodes) :
        MergedBy(dedup1[v], data.nodes[p[1]], data.nodes[p[2]])
          <=> /\ SameTimeAndNeighbours(v, data.nodes[p[1]], data.nodes[p[2]], data.edges)
              /\ Degree(data.nodes[p[1]].id, data.edges) = Degree(data.nodes[p[2]].id, data.edges)

\* The positions of the input nodes that the test of the pass finds identical
\* to the internal node at position i, position i included.
GroupOf(v, nodes, edges, i) ==
    {i} \cup { j \in DOMAIN nodes : j # i /\ CanCombine(v, nodes[i], nodes[j], edges) }

\* The positions of the internal input nodes with the time and the neighbour
\* ids (and, in the spatial variant, the location) of the internal node at
\* position i, position i included.
IdenticalTo(v, nodes, edges, i) ==
    {i} \cup { j \in DOMAIN nodes :
                 /\ j # i
                 /\ ~nodes[j].is_sample
                 /\ SameTimeAndNeighbours(v, nodes[i], nodes[j], edges) }

\* The position of the first node of a group in input order.
FirstOf(group) == CHOOSE i \in group : \A j \in group : i <= j

\* One pass over `nodes` with result `out`, Group(i) being the positions of
\* the nodes identical to node i: every group of internal nodes is one output
\* node with the id of its first node and the ids of the group as members,
\* every input id is mapped to an output id, and no two output nodes share
\* an id.
GroupsCollapsed(Group(_), nodes, out) ==
    /\ \A i \in DOMAIN nodes :
         ~nodes[i].is_sample =>
           LET group == Group(i)
               first == nodes[FirstOf(group)]
               ids   == { nodes[j].id : j \in group }
               hits  == { k \in DOMAIN out.nodes : out.nodes[k].id \in ids }
           IN /\ Cardinality(hits) = 1
              /\ \A k \in hits :
                   /\ out.nodes[k].id = first.id
                   /\ Cardinality(group) > 1 =>
                        /\ out.nodes[k].is_combined
                        /\ Len(out.nodes[k].combined_nodes) = Cardinality(group)
                        /\ Range(out.nodes[k].combined_nodes) = ids
              /\ \A j \in group : out.nodeMap[nodes[j].id] = first.id
    /\ DOMAIN out.nodeMap = IdSet(nodes)
    /\ \A id \in IdSet(nodes) : out.nodeMap[id] \in IdSet(out.nodes)
    /\ \A k, m \in DOMAIN out.nodes : out.nodes[k].id = out.nodes[m].id => k = m

\* C16: all mutually identical nodes (same time, same neighbour ids) collapse
\* into exactly one combined node that keeps the id of the first of them in
\* input order and lists exactly the ids of the group as its members; every
\* input node id is mapped to the id of exactly one output node, and output
\* node ids are pairwise distinct.
C16_IdenticalNodesCollapseToFirst ==
    phase # "input" =>
      \A v \in Variants :
        GroupsCollapsed(LAMBDA i : IdenticalTo(v, data.nodes, data.edges, i),
                        data.nodes, dedup1[v])

\* The same for the groups the pass itself forms (its test also compares the
\* number of connected edge entries), for a first and for a second pass.
GroupsCollapseToFirst ==
    /\ phase # "input" =>
         \A v \in Variants :
           GroupsCollapsed(LAMBDA i : GroupOf(v, data.nodes, data.edges, i),
                           data.nodes, dedup1[v])
    /\ phase = "rededuped" =>
         \A v \in Variants :
           GroupsCollapsed(LAMBDA i : GroupOf(v, dedup1[v].nodes, dedup1[v].edges, i),
                           dedup1[v].nodes, dedup2[v])

(***************************************************************************)
(* Properties of the rank assignment                                       *)
(***************************************************************************)
\* The number of distinct node times smaller than `time`.
TimesBelow(nodes, time) ==
    Cardinality({ t \in { nodes[j].time : j \in DOMAIN nodes } : t < time })

\* The ranked nodes of the renderer that has run, as (time, rank) records.
RankedNodes ==
    IF mounted = "static"
    THEN [ k \in DOMAIN route.nodes |->
             [time |-> route.nodes[k].time, rank |-> Val(route.nodes[k].rank)] ]
    ELSE [ k \in DOMAIN layout1.positionedNodes |->
             [time |-> layout1.positionedNodes[k].time,
              rank |-> Val(layout1.positionedNodes[k].timeIndex)] ]

\* C17: in the force-directed and the static renderer the rank of a node is
\* the index of its time in the ascending list of distinct node times: equal
\* times give equal ranks and a smaller time a strictly smaller rank,
\* whatever the order of the nodes in the input.
C17_RankIsIndexOfTime ==
    phase = "laidout" =>
      /\ \A k \in DOMAIN RankedNodes :
           RankedNodes[k].rank = TimesBelow(RankedNodes, RankedNodes[k].time)
      /\ \A k, m \in DOMAIN RankedNodes :
           /\ RankedNodes[k].time = RankedNodes[m].time
                => RankedNodes[k].rank = RankedNodes[m].rank
           /\ RankedNodes[k].time < RankedNodes[m].time
                => RankedNodes[k].rank < RankedNodes[m].rank

\* A renderer ranked a snapshot whose first node has the largest time, with
\* a time missing between the times of two nodes.
C17_Witness ==
    /\ phase = "laidout"
    /\ Len(RankedNodes) > 2
    /\ \A k \in DOMAIN RankedNodes : RankedNodes[k].time <= RankedNodes[1].time
    /\ \E k \in DOMAIN RankedNodes : RankedNodes[k].time < RankedNodes[1].time
    /\ \E k \in DOMAIN RankedNodes : RankedNodes[k].rank # RankedNodes[k].time

(***************************************************************************)
(* Properties of the ancestry index                                        *)
(***************************************************************************)
\* The edges of the traversed graph that lead to a strictly larger rank.
RankIncreasingEdges(t) ==
    SelectSeq(t.edges, LAMBDA e :
      Val(t.nodes[e.target].timeIndex) > Val(t.nodes[e.source].timeIndex))

\* Ids reachable from `from` along the given edges when only the nodes in
\* `through` are passed.
RECURSIVE ReachableThrough(_, _, _)
ReachableThrough(from, edges, through) ==
    LET next == from \cup { edges[k].target :
                              k \in { j \in DOMAIN edges : edges[j].source \in from \cap through } }
    IN IF next = from THEN from ELSE ReachableThrough(next, edges, through)

SampleIdsOf(t) == { id \in DOMAIN t.nodes : t.nodes[id].is_sample }

\* The samples other than the start that a rank-increasing path from the
\* start reaches.
ReachableSamples(t) ==
    (Reachable({t.start}, RankIncreasingEdges(t)) \cap SampleIdsOf(t)) \ {t.start}

\* The same over the paths that pass no sample between start and end.
DirectlyReachableSamples(t) ==
    (ReachableThrough({t.start}, RankIncreasingEdges(t),
                      {t.start} \cup (DOMAIN t.nodes \ SampleIdsOf(t)))
       \cap SampleIdsOf(t)) \ {t.start}

\* getDescendantSamples has returned.
SamplesReturned == trav.kind = "getDescendantSamples" /\ trav.queue = <<>>

RankIn(t, id) == Rank(t.renderer, t.nodes[id])

\* Positions in the edge list of the edges into the queried node whose
\* source has a strictly smaller rank.
LowerIncoming(t) ==
    { k \in DOMAIN t.edges :
        /\ t.edges[k].target = t.start
        /\ RankIn(t, t.edges[k].source) < RankIn(t, t.start) }

\* C19: parentOf(n) yields no parent if and only if n has no incoming edge
\* whose source has a strictly smaller rank; otherwise it yields the source
\* of the first such edge in edge-list order, a node of strictly smaller
\* rank than n, and repeated queries return the same node.
C19_ParentIsFirstLowerSource ==
    trav.kind = "getParent" =>
      \A q \in DOMAIN trav.parents :
        /\ ~IsDefined(trav.parents[q]) <=> LowerIncoming(trav) = {}
        /\ IsDefined(trav.parents[q]) =>
             /\ Val(trav.parents[q]).id = trav.edges[SetMin(LowerIncoming(trav))].source
             /\ Rank(trav.renderer, Val(trav.parents[q])) < RankIn(trav, trav.start)
        /\ trav.parents[q] = trav.parents[1]

\* Two queries on a node whose first incoming edge in the list comes from a
\* node of the same or a larger rank and whose parent is the source of a
\* later edge.
C19_Witness ==
    /\ trav.kind = "getParent"
    /\ Len(trav.parents) = 2
    /\ IsDefined(trav.parents[2])
    /\ \E k \in DOMAIN trav.edges :
         /\ trav.edges[k].target = trav.start
         /\ k \notin LowerIncoming(trav)
         /\ k < SetMin(LowerIncoming(trav))

(***************************************************************************)
(* Properties of the drag handler                                          *)
(***************************************************************************)
\* The node being dragged.
Subject == sim.nodes[SimIndex(drag.subject)]

\* With no timer tick during the gesture x stays where it was when the
\* gesture started, and dragstarted pins the node at x: the fixed x differs
\* from x only once the drag handler has moved it.
MovedByDrag ==
    /\ phase = "simulating"
    /\ drag.subject # 0
    /\ IsDefined(Subject.fx)
    /\ Subject.fx # Subject.x

\* The fixed x of the dragged node lies inside the range of its descendant
\* samples if it has one, and inside the canvas padding otherwise.
PinnedInsideRange ==
    LET range == GetDescendantSampleRange("force", Subject, sim.nodes, sim.edges)
    IN IF IsDefined(range)
       THEN Val(range).min <= Val(Subject.fx) /\ Val(Subject.fx) <= Val(range).max
       ELSE /\ XPadding(canvas.width) <= Val(Subject.fx)
            /\ Val(Subject.fx) <= canvas.width - XPadding(canvas.width)

\* C20: while a node is dragged, for every pointer position the x it is
\* pinned to lies inside its descendant-sample range when it has one and
\* inside the canvas padding otherwise, also after the sibling clamp.
C20_DraggedStaysInsideRange == MovedByDrag => PinnedInsideRange

(***************************************************************************)
(* Properties of the relaxation loop under fair ticking                    *)
(***************************************************************************)
\* The simulation exists and no node is being dragged.
NoGesture == phase = "simulating" /\ drag.subject = 0

\* The timer has stopped.
Halted == phase = "simulating" /\ ~sim.running

\* C21: once no drag gesture is in progress the relaxation loop halts after
\* finitely many ticks (unless a new gesture starts first): alpha decays on
\* every tick down to the threshold, and a released drag has returned the
\* alpha target to zero.
C21_LoopHaltsWithoutGesture == NoGesture ~> (Halted \/ drag.subject # 0)

\* The loop has halted after a drag gesture that restarted it was released.
C21_Witness ==
    /\ Halted
    /\ drag.subject = 0
    /\ drag.count > 0
    /\ sim.alphaTarget = 0

(***************************************************************************)
(* Properties of the sample pins during relaxation                        *)
(***************************************************************************)
\* The x the sample placement gave the node, as the layout effect left it.
PinnedAt(id) == Val(FindNode(layout1.combinedNodes, id)).fx

\* C22: throughout relaxation every sample node is pinned at the x the
\* sample placement gave it: its fx is set to that x and never cleared or
\* moved, also after a drag gesture on a sample has ended.
C22_SamplesStayPinned ==
    phase = "simulating" =>
      \A k \in DOMAIN sim.nodes :
        sim.nodes[k].is_sample =>
          /\ IsDefined(sim.nodes[k].fx)
          /\ sim.nodes[k].fx = PinnedAt(sim.nodes[k].id)

(***************************************************************************)
(* Properties of the data prop of ForceDirectedGraph                       *)
(***************************************************************************)
\* C23: the graph that is laid out is the most recently supplied one:
\* after every render the layout effect has laid out the nodes and edges
\* of the data prop of that render.
C23_LaidOutIsLatestData ==
    effects.mounted => WholeGraph(effects.laidOut) = WholeGraph(effects.prop)

(***************************************************************************)
(* Properties of the bend the orthogonal router chooses                    *)
(***************************************************************************)
From(k) == route.nodes[route.links[k].source]

To(k) == route.nodes[route.links[k].target]

\* The link is routed orthogonally and its endpoints are not aligned.
RoutedWithBend(k) ==
    /\ route.called
    /\ route.edgeType = "ortho"
    /\ Abs(To(k).x - From(k).x) >= AlignThreshold
    /\ Abs(To(k).y - From(k).y) >= AlignThreshold

\* The path from the source to the target through the corner (cx, cy).
Bend(k, cx, cy) ==
    << PathCommand("M", From(k).x, From(k).y), PathCommand("L", cx, cy),
       PathCommand("L", To(k).x, To(k).y) >>

HorizontalFirst(k) == Bend(k, To(k).x, From(k).y)

VerticalFirst(k) == Bend(k, From(k).x, To(k).y)

Parents(k) == { j \in DOMAIN route.links : route.links[j].target = route.links[k].target }

Children(k) == { j \in DOMAIN route.links : route.links[j].source = route.links[k].source }

\* A special rule applies to the link: its target is a sample or has one
\* parent, or its source has one child.
SpecialRule(k) ==
    \/ To(k).ts_flags % 2 = 1
    \/ Cardinality(Parents(k)) = 1
    \/ Cardinality(Children(k)) = 1

\* The crossings the router counts for a candidate path of the link.
CrossingsOf(k, path) ==
    CalculatePathCrossings(ParsePathToPoints(path), OtherLinks(route.links[k], route.links),
                           route.nodes, route.edgeType)

\* The candidate with fewer crossings; on a tie horizontal first for an
\* upward edge and vertical first otherwise.
FewerCrossings(k, horizontal, vertical) ==
    IF horizontal < vertical THEN HorizontalFirst(k)
    ELSE IF vertical < horizontal THEN VerticalFirst(k)
    ELSE IF To(k).y < From(k).y THEN HorizontalFirst(k)
    ELSE VerticalFirst(k)

AssumedPath(j) ==
    CalculateOptimalPathWithCrossingMin(route.links[j], <<>>, route.nodes, route.edgeType)

\* C25: when the router compares crossing counts for a link, the path it
\* assumes for every other link is the path it emits for that link.
C25_AssumedPathIsEmittedPath ==
    \A k \in DOMAIN route.links :
      (RoutedWithBend(k) /\ ~SpecialRule(k)) =>
        \A j \in DOMAIN route.links \ {k} : AssumedPath(j) = route.paths[j]

(***************************************************************************)
(* Properties of segmentsIntersect                                         *)
(***************************************************************************)
\* Twice the signed area of the triangle a, b, c: 0 when c is on the line
\* through a and b, and of opposite sign on the two sides of it.
Side(a, b, c) == (b.x - a.x) * (c.y - a.y) - (b.y - a.y) * (c.x - a.x)

\* The lines through the two segments have different directions.
NotParallel(s, t) ==
    (s.end.x - s.start.x) * (t.end.y - t.start.y)
      # (s.end.y - s.start.y) * (t.end.x - t.start.x)

\* The line through s meets t: the ends of t are not strictly on one side.
LineMeets(s, t) == Side(s.start, s.end, t.start) * Side(s.start, s.end, t.end) <= 0

\* The point where the two lines meet lies on both segments.
MeetOnBoth(s, t) == LineMeets(s, t) /\ LineMeets(t, s)

\* C26: segmentsIntersect is true exactly when the segments are not
\* parallel and the point where their lines meet lies on both of them; it
\* is false for parallel or collinear segments, and the order of the two
\* segments does not matter.
C26_IntersectIffLinesMeetOnBoth ==
    (route.called /\ "seg1" \in DOMAIN route) =>
      /\ route.result = (NotParallel(route.seg1, route.seg2)
                           /\ MeetOnBoth(route.seg1, route.seg2))
      /\ route.swapped = route.result

\* Two segments that touch only because one ends on the other were tested
\* and found intersecting.
C26_Witness ==
    /\ route.called
    /\ "seg1" \in DOMAIN route
    /\ route.result
    /\ Side(route.seg1.start, route.seg1.end, route.seg2.start) = 0
    /\ Side(route.seg2.start, route.seg2.end, route.seg1.start) # 0
    /\ Side(route.seg2.start, route.seg2.end, route.seg1.end) # 0

(***************************************************************************)
(* Properties of the sample placement                                      *)
(***************************************************************************)
\* The layout has been computed.
Placed == phase \in { "laidout", "relaidout" }

\* Positions of the samples in the node list that was laid out.
SamplesPlaced == { k \in DOMAIN layout1.combinedNodes : layout1.combinedNodes[k].is_sample }

SampleX(k) == Val(layout1.combinedNodes[k].x)

\* Number of edges of the laid-out graph that touch the node.
Connectivity(k) ==
    Cardinality({ e \in DOMAIN layout1.combinedEdges :
                    \/ layout1.combinedEdges[e].source = layout1.combinedNodes[k].id
                    \/ layout1.combinedEdges[e].target = layout1.combinedNodes[k].id })

\* The samples stand on the n evenly spaced positions from 0.1 W to 0.9 W,
\* one on each (a single sample stands at 0.1 W).
EvenlySpaced ==
    LET n == Cardinality(SamplesPlaced)
        W == canvas.width
    IN /\ \A k \in SamplesPlaced :
            \E i \in 0..(n - 1) :
              SampleX(k) * Max(n - 1, 1) = (W \div 10) * Max(n - 1, 1) + i * ((8 * W) \div 10)
       /\ \A j, k \in SamplesPlaced : j # k => SampleX(j) # SampleX(k)

\* From left to right the samples are in order of descending connectivity.
ByDescendingDegree ==
    \A j, k \in SamplesPlaced : Connectivity(j) > Connectivity(k) => SampleX(j) < SampleX(k)

\* From left to right the samples are in order of ascending individual.
ByIndividual ==
    \A j, k \in SamplesPlaced :
      layout1.combinedNodes[j].individual < layout1.combinedNodes[k].individual
        => SampleX(j) < SampleX(k)

\* C27 as stated: the samples are placed at evenly spaced x positions over
\* the middle 80% of the canvas width, assigned in order of descending
\* connectivity degree.
C27_SamplesSpacedByDegree == Placed => (EvenlySpaced /\ ByDescendingDegree)

\* C27, amended: the samples are placed at evenly spaced x positions over
\* the middle 80% of the canvas width; the force-directed renderer assigns
\* them from the left in order of descending connectivity degree, the
\* DeckGL renderer in order of ascending individual.
C27_SamplesSpacedInRendererOrder ==
    Placed => /\ EvenlySpaced
              /\ mounted = "force" => ByDescendingDegree
              /\ mounted = "deckgl" => ByIndividual

\* The force-directed renderer has placed samples of different degree: the
\* best connected one is the leftmost, at 0.1 W, and another stands at 0.9 W.
C27_Witness ==
    /\ Placed
    /\ mounted = "force"
    /\ \E j, k \in SamplesPlaced :
         /\ Connectivity(j) > Connectivity(k)
         /\ layout1.combinedNodes[j].individual > layout1.combinedNodes[k].individual
         /\ SampleX(j) = canvas.width \div 10
         /\ SampleX(k) = (9 * canvas.width) \div 10

(***************************************************************************)
(* Properties of the layer positioner                                      *)
(***************************************************************************)
\* C28: after positioning every non-sample node has an x position,
\* whatever the number of nodes in its rank and whichever rank it is in.
C28_EveryNonSamplePositioned ==
    Placed =>
      \A k \in DOMAIN layout1.combinedNodes :
        ~layout1.combinedNodes[k].is_sample => IsDefined(layout1.combinedNodes[k].x)

(***************************************************************************)
(* Properties of the vertical positions of the static layered layout       *)
(***************************************************************************)
\* C29: in the layout calculateArgLayout emits, y encodes the rank: two
\* nodes have the same y if and only if they have the same rank, samples
\* and non-samples alike.
C29_SameYIffSameRank ==
    (Placed /\ mounted = "deckgl") =>
      \A j, k \in DOMAIN layout1.positionedNodes :
        (layout1.positionedNodes[j].y = layout1.positionedNodes[k].y)
          <=> (layout1.positionedNodes[j].layer = layout1.positionedNodes[k].layer)

(***************************************************************************)
(* Properties of the data loading of the graph containers                  *)
(***************************************************************************)
\* C30: the graph a container holds belongs to the most recently issued
\* request among those answered: the response of an older request never
\* replaces the data of a newer one, in whatever order they arrive.
C30_NoOlderResponseReplacesNewer ==
    (effects.mounted /\ IsDefined(effects.data)) =>
      \A id \in effects.answered : id <= Val(effects.data).id

====
